---- MODULE Spec2Model ----
(***************************************************************************)
(* A model of the smartbin waste-bin simulation: the sensors of            *)
(* src/*_sensor.py, the session of src/main.py and src/run_simulation.py,  *)
(* and the token ledger (token_system.token_manager) the session uses.     *)
(*                                                                         *)
(* Real numbers are fixed-point integers.  Units:                          *)
(*   tokens            1/100 token   (the ledger rounds to 2 decimals)     *)
(*   weight            1/1000 kg     (the detector rounds to 3 decimals)   *)
(*   token value       1/10 token per kg                                   *)
(*   redemption rate   1/100 reward unit per token                         *)
(*   reward            1/10000 reward unit                                 *)
(*   temperature       1/1000 degree (readings are rounded to 1/100)       *)
(*   fill level        1/1000 percent (readings are rounded to 1/100)      *)
(*   coordinates       1/10^7 degree  (readings are rounded to 1/10^6)     *)
(*   odor intensity    1/10^4         (readings are rounded to 1/1000)     *)
(*   humidity          1/10^4 percent (readings are rounded to 1/100)      *)
(*   AQI               1/1000         (readings are rounded to 1/100)      *)
(* User ids are 1, 2, 3, ... in registration order; 0 is None; NoSuchUser  *)
(* is an id that is never registered.                                      *)
(***************************************************************************)
EXTENDS Integers, Sequences, FiniteSets, TLC

VARIABLES
    \* ---- TokenManager (token_system.token_manager)
    user_name,            \* user id -> display name; DOMAIN = the registered ids
    token_balance,        \* user id -> balance
    redemption_history,   \* user id -> sequence of redemption records
    \* ---- what the callers of the ledger observed
    ret,                  \* the ledger call of the last step (NoCall when it made
                          \* none): its arguments and its result
    awarded,              \* id -> sum of the tokens of the awards that returned success
    redeemed,             \* id -> sum of the tokens of the redemptions that returned True
    ops,                  \* number of award and redeem calls so far; also the clock
    \* ---- RecyclableSensor
    token_manager,        \* TRUE when a ledger is attached (self.token_manager)
    current_user_id,      \* self.current_user_id
    recyclable_data,      \* the last value returned by RecyclableSensor.read
    detection_probabilities,  \* self.detection_probabilities: material -> 1/100
    \* ---- WasteBinIoTSimulation._simulate_token_redemption
    redemption_outcome,   \* how the last simulated redemption ended
    \* ---- TemperatureSensor
    normal_readings_before_anomaly,
    current_temperature,  \* in 1/1000 degree Celsius
    normal_readings_count,
    force_anomaly,        \* the local force_anomaly of the last read
    temp_data,            \* the last value returned by TemperatureSensor.read
    \* ---- FillLevelSensor (levels in 1/1000 percent)
    fill_level,
    fill_rate,
    capacity,
    fill_rate_variation,
    overflow_threshold,
    fill_level_data,      \* the last value returned by FillLevelSensor.read
    fill_calls,           \* number of calls of the sensor made in SpecFill
    \* ---- GPSSensor (coordinates in 1/10^7 degree)
    latitude,
    longitude,
    gps_data,             \* the last value returned by GPSSensor.read
    \* ---- OdorSensor (intensity in 1/10^4)
    current_odor_type,
    current_intensity,
    odor_data,            \* the last value returned by OdorSensor.read
    \* ---- HumiditySensor (humidity in 1/10^4 percent)
    current_humidity,
    humidity_data,        \* the last value returned by HumiditySensor.read
    \* ---- AirQualitySensor (AQI in 1/1000)
    current_aqi,
    air_quality_data,     \* the last value returned by AirQualitySensor.read
    \* ---- the session: run_simulation (main.py) or run_continuous_simulation
    \* ---- (run_simulation.py)
    profile,              \* which random draws range over their interval in this
                          \* behaviour (the others take one value); never changes
    mode,                 \* "batch": run_simulation; "continuous": the other loop
    pc,                   \* where the run is: connect, loop, tick, finally, done,
                          \* or aborted
    step,                 \* inside a tick: the position in TickOrder
    i,                    \* the loop index i (batch) or reading_count (continuous)
    num_readings,         \* the argument num_readings of a batch run
    running,              \* the flag `running`; in a batch run: no KeyboardInterrupt
                          \* was delivered yet
    connected,            \* azure_client.connected
    current_user,         \* the local current_user (its user id)
    combined_data,        \* the last composite record that was assembled
    telemetry,            \* how the last send_telemetry call ended
    reads,                \* the sensors read so far in the current tick, in order
    sleeps                \* number of inter-tick delays started so far

ledgerVars == <<user_name, token_balance, redemption_history>>
seenVars   == <<awarded, redeemed, ops>>
detVars    == <<token_manager, current_user_id, recyclable_data,
                detection_probabilities>>
tempVars   == <<normal_readings_before_anomaly, current_temperature,
                normal_readings_count, force_anomaly, temp_data>>
fillVars   == <<fill_level, fill_rate, capacity, fill_rate_variation,
                overflow_threshold, fill_level_data>>
gpsVars    == <<latitude, longitude, gps_data>>
odorVars   == <<current_odor_type, current_intensity, odor_data>>
humidityVars == <<current_humidity, humidity_data>>
aqiVars    == <<current_aqi, air_quality_data>>
envVars    == <<gpsVars, odorVars, humidityVars, aqiVars>>
runVars    == <<profile, mode, pc, step, i, num_readings, running, connected,
                current_user, combined_data, telemetry, reads, sleeps>>
vars == <<ledgerVars, ret, seenVars, detVars, redemption_outcome, tempVars, fillVars,
          fill_calls, envVars, runVars>>

\* ------------------------------------------------------------------ bounds
MaxOps == 3          \* award and redeem calls in one behaviour of SpecLedger
MaxFillCalls == 4    \* calls in one behaviour of SpecFill
MaxReadings == 6     \* ticks of a session
MaxFillReadings == 21  \* ticks of a session that explores the fill-level draws

None == 0
NoSuchUser == -1
\* The display names registration is called with; each account gets its own.
Names == {"", "A", "B"}
AllIds == (-1) .. Cardinality(Names)

\* ------------------------------------------------------------------ helpers
Min(a, b) == IF a <= b THEN a ELSE b
Max(a, b) == IF a >= b THEN a ELSE b

\* max(lo, min(hi, x))
Clamp(x, lo, hi) == Max(lo, Min(hi, x))

Range(seq) == {seq[k] : k \in DOMAIN seq}

\* Python's round(x, k) on a float whose decimal value is n/d of the target
\* unit: the nearest multiple; on an exact decimal tie the binary float lies on
\* either side, so both neighbours are possible results.
RoundDiv(n, d) ==
    LET q == n \div d
        r == n % d
    IN  IF 2 * r < d THEN {q}
        ELSE IF 2 * r > d THEN {q + 1}
        ELSE {q, q + 1}

\* ------------------------------------------------------------------ catalogs
\* Token value per kg of each material, in 1/10 token (plastic: 2.0 tokens/kg).
token_values ==
    ("paper" :> 10) @@ ("plastic" :> 20) @@ ("metal" :> 30) @@
    ("glass" :> 15) @@ ("e-waste" :> 50)

\* Reward units per token of each redemption option, in 1/100.
redemption_options == ("cash" :> 10) @@ ("voucher" :> 50)

\* RecyclableSensor.MATERIAL_TYPES: subtypes and weight range in grams.
MATERIAL_TYPES ==
    ("paper"   :> [subtypes |-> <<"newspaper", "cardboard", "magazine", "mixed paper">>,
                   weight_range |-> <<50, 2000>>]) @@
    ("plastic" :> [subtypes |-> <<"PET bottle", "HDPE container", "plastic bag", "plastic packaging">>,
                   weight_range |-> <<10, 500>>]) @@
    ("metal"   :> [subtypes |-> <<"aluminum can", "steel can", "metal lid", "foil">>,
                   weight_range |-> <<20, 500>>]) @@
    ("glass"   :> [subtypes |-> <<"clear bottle", "green bottle", "brown bottle", "glass jar">>,
                   weight_range |-> <<100, 1000>>]) @@
    ("e-waste" :> [subtypes |-> <<"battery", "small electronic", "cable", "charger">>,
                   weight_range |-> <<50, 2000>>])

\* ------------------------------------------------------------------ TokenManager
\* The ledger is called with the clock value as the timestamp of the call.
Registered == DOMAIN token_balance

\* register_user(name): a new account with balance 0 and an empty history;
\* an empty name is refused and creates nothing.
register_user(name) ==
    LET id == Cardinality(Registered) + 1
    IN  IF name = ""
        THEN /\ UNCHANGED ledgerVars
             /\ ret' = [op |-> "register", user |-> None, arg |-> name, amount |-> 0,
                        success |-> FALSE, tokens |-> 0]
        ELSE /\ user_name' = (id :> name) @@ user_name
             /\ token_balance' = (id :> 0) @@ token_balance
             /\ redemption_history' = (id :> <<>>) @@ redemption_history
             /\ ret' = [op |-> "register", user |-> id, arg |-> name, amount |-> 0,
                        success |-> TRUE, tokens |-> 0]

\* The tokens an award of `weight` grams of `material_type` may yield:
\* weight x value per kg, rounded to 2 decimals.
AwardAmounts(material_type, weight) ==
    RoundDiv(weight * token_values[material_type], 100)

\* Whether award_tokens(user_id, material_type, ...) is accepted.
CanAward_anyUser(user_id, material_type) == material_type \in DOMAIN token_values
CanAward(user_id, material_type) ==
    user_id \in Registered /\ material_type \in DOMAIN token_values

\* award_tokens(user_id, material_type, material_subtype, weight, timestamp)
\*   -> (success, tokens_awarded)
award_tokens(user_id, material_type, material_subtype, weight, timestamp) ==
    /\ UNCHANGED <<user_name, redemption_history>>
    /\ IF CanAward(user_id, material_type)
       THEN \E tokens \in AwardAmounts(material_type, weight) :
              /\ token_balance' = [token_balance EXCEPT ![user_id] = @ + tokens]
              /\ ret' = [op |-> "award", user |-> user_id, arg |-> material_type,
                         amount |-> weight, success |-> TRUE, tokens |-> tokens]
       ELSE /\ UNCHANGED token_balance
            /\ ret' = [op |-> "award", user |-> user_id, arg |-> material_type,
                       amount |-> weight, success |-> FALSE, tokens |-> 0]

\* Whether redeem_tokens(user_id, tokens, option) is accepted.
CanRedeem_noBalanceCheck(user_id, tokens, option) ==
    user_id \in Registered /\ option \in DOMAIN redemption_options
CanRedeem(user_id, tokens, option) ==
    /\ user_id \in Registered
    /\ option \in DOMAIN redemption_options
    /\ token_balance[user_id] >= tokens

\* The record a successful redemption appends to the history.
RedemptionRecord_rateOnly(timestamp, tokens, option) ==
    [timestamp |-> timestamp, tokens |-> tokens, option |-> option,
     reward |-> redemption_options[option]]
RedemptionRecord(timestamp, tokens, option) ==
    [timestamp |-> timestamp, tokens |-> tokens, option |-> option,
     reward |-> tokens * redemption_options[option]]

\* redeem_tokens(user_id, tokens, option) -> success
redeem_tokens(user_id, tokens, option) ==
    /\ UNCHANGED user_name
    /\ IF CanRedeem(user_id, tokens, option)
       THEN /\ token_balance' = [token_balance EXCEPT ![user_id] = @ - tokens]
            /\ redemption_history' =
                 [redemption_history EXCEPT ![user_id] =
                    Append(@, RedemptionRecord(ops, tokens, option))]
            /\ ret' = [op |-> "redeem", user |-> user_id, arg |-> option,
                       amount |-> tokens, success |-> TRUE, tokens |-> tokens]
       ELSE /\ UNCHANGED <<token_balance, redemption_history>>
            /\ ret' = [op |-> "redeem", user |-> user_id, arg |-> option,
                       amount |-> tokens, success |-> FALSE, tokens |-> 0]

NoCall ==
    [op |-> "none", user |-> None, arg |-> "", amount |-> 0, success |-> FALSE,
     tokens |-> 0]

\* What the caller of this step's ledger call adds to its running sums, when
\* `tokens_awarded` is the award it was told of.
SeenAs(tokens_awarded) ==
    /\ ops' = IF ret'.op \in {"award", "redeem"} THEN ops + 1 ELSE ops
    /\ awarded' = IF ret'.op = "award" /\ ret'.success
                  THEN [awarded EXCEPT ![ret'.user] = @ + tokens_awarded] ELSE awarded
    /\ redeemed' = IF ret'.op = "redeem" /\ ret'.success
                   THEN [redeemed EXCEPT ![ret'.user] = @ + ret'.tokens] ELSE redeemed

InitSeen ==
    /\ ret = NoCall
    /\ awarded = [id \in AllIds |-> 0]
    /\ redeemed = [id \in AllIds |-> 0]
    /\ ops = 0

\* ------------------------------------------------------------------ RecyclableSensor
\* The session's detection probabilities (main.py), in 1/100.
session_detection_probabilities ==
    ("paper" :> 30) @@ ("plastic" :> 40) @@ ("metal" :> 15) @@
    ("glass" :> 10) @@ ("e-waste" :> 5)

\* The probabilities of a sensor built without any.
default_detection_probabilities ==
    ("paper" :> 30) @@ ("plastic" :> 40) @@ ("metal" :> 15) @@
    ("glass" :> 10) @@ ("e-waste" :> 5)

\* The argument None, or an empty dict: both are false for `or`.
NoProbabilities == <<>>

\* sum(detection_probabilities.values())
RECURSIVE SumOver(_, _)
SumOver(f, S) ==
    IF S = {} THEN 0
    ELSE LET m == CHOOSE x \in S : TRUE IN f[m] + SumOver(f, S \ {m})
ProbabilitySum(probabilities) == SumOver(probabilities, DOMAIN probabilities)

\* RecyclableSensor.__init__: self.detection_probabilities =
\* detection_probabilities or {the defaults}.  Nothing is validated.
RecyclableSensor_init(probabilities) ==
    IF probabilities = NoProbabilities THEN default_detection_probabilities
    ELSE probabilities

\* set_detection_probabilities(detection_probabilities): a sum outside
\* [0.99, 1.01] raises ValueError before anything is assigned.
set_detection_probabilities(probabilities) ==
    IF 99 <= ProbabilitySum(probabilities) /\ ProbabilitySum(probabilities) <= 101
    THEN detection_probabilities' = probabilities
    ELSE UNCHANGED detection_probabilities

\* random.choices(keys, weights): any key of positive weight.
MaterialDraws == {m \in DOMAIN detection_probabilities : detection_probabilities[m] > 0}

\* round(random.uniform(min_weight, max_weight), 3): the two endpoints of the
\* range stand for the draws.
WeightDraws(material_type) ==
    LET min_weight == MATERIAL_TYPES[material_type].weight_range[1]
        max_weight == MATERIAL_TYPES[material_type].weight_range[2]
    IN  {min_weight, max_weight}

\* random.choice(subtypes): the first and the last subtype stand for the draws.
SubtypeDraws(material_type) == {1, Len(MATERIAL_TYPES[material_type].subtypes)}

NoDetection ==
    [materialDetected |-> FALSE, materialType |-> "None", materialSubtype |-> "None",
     weight |-> 0, tokensAwarded |-> 0, userId |-> None]

\* The tokens_awarded a read reports, given whether award_tokens was called and
\* what it returned.
TokensReported_unassigned(called, result) == 0
TokensReported_success(called, result) ==
    IF called /\ result.success THEN 1 ELSE 0
TokensReported(called, result) == IF called THEN result.tokens ELSE 0

\* RecyclableSensor.read() when random.random() > 0.9: nothing detected (the
\* reading has no tokensAwarded key; the composite record reads it with the
\* default 0).
DetectNothing ==
    /\ recyclable_data' = NoDetection
    /\ ret' = NoCall
    /\ UNCHANGED ledgerVars

\* RecyclableSensor.read() when a material is detected, with its draws: the
\* material type, the index of the subtype and the weight.
Detect_awardsWithoutUser(material_type, n, weight) ==
    LET material_subtype == MATERIAL_TYPES[material_type].subtypes[n]
        called == token_manager
    IN  /\ IF called
           THEN award_tokens(current_user_id, material_type, material_subtype,
                             weight, ops)
           ELSE ret' = NoCall /\ UNCHANGED ledgerVars
        /\ recyclable_data' =
             [materialDetected |-> TRUE, materialType |-> material_type,
              materialSubtype |-> material_subtype, weight |-> weight,
              tokensAwarded |-> TokensReported(called, ret'),
              userId |-> current_user_id]
Detect(material_type, n, weight) ==
    LET material_subtype == MATERIAL_TYPES[material_type].subtypes[n]
        called == token_manager /\ current_user_id # None
    IN  /\ IF called
           THEN award_tokens(current_user_id, material_type, material_subtype,
                             weight, ops)
           ELSE ret' = NoCall /\ UNCHANGED ledgerVars
        /\ recyclable_data' =
             [materialDetected |-> TRUE, materialType |-> material_type,
              materialSubtype |-> material_subtype, weight |-> weight,
              tokensAwarded |-> TokensReported(called, ret'),
              userId |-> current_user_id]

\* RecyclableSensor.read()
RecyclableSensor_read ==
    \/ DetectNothing
    \/ \E material_type \in MaterialDraws :
       \E n \in SubtypeDraws(material_type) :
       \E weight \in WeightDraws(material_type) :
         Detect(material_type, n, weight)

set_current_user(user_id) == current_user_id' = user_id

InitDetector(probabilities) ==
    /\ detection_probabilities = RecyclableSensor_init(probabilities)
    /\ current_user_id = None
    /\ recyclable_data = NoDetection

\* ------------------------------------------------------------------ the harness
\* random.randint(a, b): the two endpoints and the middle stand for the draws.
RandintDraws(a, b) == IF a > b THEN {} ELSE {a, (a + b) \div 2, b}

\* The options `user` can afford: balance >= 1 / rate.
AvailableOptions(user) ==
    {option \in DOMAIN redemption_options :
        token_balance[user] * redemption_options[option] >= 10000}

\* max_tokens = min(10, balance), in 1/100 token.
MaxTokens_ignoresBalance(user) == 1000
MaxTokens(user) == Min(1000, token_balance[user])

simulate_token_redemption_fromZero(session_users) ==
    \E user \in session_users :
      IF AvailableOptions(user) = {}
      THEN /\ redemption_outcome' = "insufficient"
           /\ ret' = NoCall
           /\ UNCHANGED ledgerVars
      ELSE \E option \in AvailableOptions(user) :
             LET max_tokens == MaxTokens(user)
             IN  \/ /\ max_tokens < 1000
                    /\ redemption_outcome' = "raised"
                    /\ ret' = NoCall
                    /\ UNCHANGED ledgerVars
                 \/ /\ max_tokens % 100 = 0
                    /\ \E tokens_to_redeem \in RandintDraws(0, max_tokens \div 100) :
                         /\ redeem_tokens(user, 100 * tokens_to_redeem, option)
                         /\ redemption_outcome' =
                              IF ret'.success THEN "redeemed" ELSE "failed"

\* WasteBinIoTSimulation._simulate_token_redemption over the users `session_users`.
\* min(10, balance) is the int 10 when balance >= 10 and the float balance
\* otherwise; random.randint raises on a float that is no whole number, and on a
\* whole float it raises or not with the Python version.
simulate_token_redemption(session_users) ==
    \E user \in session_users :
      IF AvailableOptions(user) = {}
      THEN /\ redemption_outcome' = "insufficient"
           /\ ret' = NoCall
           /\ UNCHANGED ledgerVars
      ELSE \E option \in AvailableOptions(user) :
             LET max_tokens == MaxTokens(user)
             IN  \/ /\ max_tokens < 1000
                    /\ redemption_outcome' = "raised"
                    /\ ret' = NoCall
                    /\ UNCHANGED ledgerVars
                 \/ /\ max_tokens % 100 = 0
                    /\ \E tokens_to_redeem \in RandintDraws(1, max_tokens \div 100) :
                         /\ redeem_tokens(user, 100 * tokens_to_redeem, option)
                         /\ redemption_outcome' =
                              IF ret'.success THEN "redeemed" ELSE "failed"

\* ------------------------------------------------------------------ TemperatureSensor
\* The session's parameters (main.py), in 1/1000 degree.
base_temperature == 22000
normal_fluctuation == 2000
anomaly_threshold_high == 50000
anomaly_threshold_low == 0

\* The flags of a reading: whether the temperature lies outside the thresholds.
AnomalyType_inclusive(temperature) ==
    IF temperature >= anomaly_threshold_high THEN "high"
    ELSE IF temperature <= anomaly_threshold_low THEN "low"
    ELSE "none"
AnomalyType(temperature) ==
    IF temperature > anomaly_threshold_high THEN "high"
    ELSE IF temperature < anomaly_threshold_low THEN "low"
    ELSE "none"

\* 0.8 * current + 0.2 * base + fluctuation, on the 1/1000 grid.
Drift(temperature, fluctuation) ==
    (8 * temperature + 2 * base_temperature) \div 10 + fluctuation

InitTemperature(n) ==
    /\ normal_readings_before_anomaly = n
    /\ current_temperature = base_temperature
    /\ normal_readings_count = 0
    /\ force_anomaly = FALSE
    /\ temp_data = [temperature |-> 0, isAnomaly |-> FALSE, anomalyType |-> "none",
                    branch |-> "none", chance |-> FALSE]

\* TemperatureSensor.read() with its draws: chance = random.random() <
\* anomaly_probability, high = random.random() < 0.7, excess = the
\* random.uniform(0, 20) or random.uniform(0, 10) of the anomaly branch,
\* fluctuation = random.uniform(-normal_fluctuation, normal_fluctuation).
\* temp_data.branch tells which branch the read took and temp_data.chance
\* what its first draw was.
TemperatureSensor_read_strictForce(chance, high, excess, fluctuation) ==
    LET force == normal_readings_count > normal_readings_before_anomaly
        is_anomaly == force \/ chance
        temperature ==
            IF is_anomaly
            THEN IF high THEN anomaly_threshold_high + excess
                 ELSE anomaly_threshold_low - excess
            ELSE Drift(current_temperature, fluctuation)
    IN  /\ force_anomaly' = force
        /\ normal_readings_count' = IF is_anomaly THEN 0 ELSE normal_readings_count + 1
        /\ current_temperature' = temperature
        /\ \E rounded \in RoundDiv(temperature, 10) :
             temp_data' = [temperature |-> rounded,
                           isAnomaly |-> AnomalyType(temperature) # "none",
                           anomalyType |-> AnomalyType(temperature),
                           branch |-> IF is_anomaly THEN "anomaly" ELSE "normal",
                           chance |-> chance]
        /\ UNCHANGED normal_readings_before_anomaly
TemperatureSensor_read_resetsOnFlag(chance, high, excess, fluctuation) ==
    LET force == normal_readings_count >= normal_readings_before_anomaly
        is_anomaly == force \/ chance
        temperature ==
            IF is_anomaly
            THEN IF high THEN anomaly_threshold_high + excess
                 ELSE anomaly_threshold_low - excess
            ELSE Drift(current_temperature, fluctuation)
    IN  /\ force_anomaly' = force
        /\ normal_readings_count' =
             IF is_anomaly \/ AnomalyType(temperature) # "none" THEN 0
             ELSE normal_readings_count + 1
        /\ current_temperature' = temperature
        /\ \E rounded \in RoundDiv(temperature, 10) :
             temp_data' = [temperature |-> rounded,
                           isAnomaly |-> AnomalyType(temperature) # "none",
                           anomalyType |-> AnomalyType(temperature),
                           branch |-> IF is_anomaly THEN "anomaly" ELSE "normal",
                           chance |-> chance]
        /\ UNCHANGED normal_readings_before_anomaly
TemperatureSensor_read(chance, high, excess, fluctuation) ==
    LET force == normal_readings_count >= normal_readings_before_anomaly
        is_anomaly == force \/ chance
        temperature ==
            IF is_anomaly
            THEN IF high THEN anomaly_threshold_high + excess
                 ELSE anomaly_threshold_low - excess
            ELSE Drift(current_temperature, fluctuation)
    IN  /\ force_anomaly' = force
        /\ normal_readings_count' = IF is_anomaly THEN 0 ELSE normal_readings_count + 1
        /\ current_temperature' = temperature
        /\ \E rounded \in RoundDiv(temperature, 10) :
             temp_data' = [temperature |-> rounded,
                           isAnomaly |-> AnomalyType(temperature) # "none",
                           anomalyType |-> AnomalyType(temperature),
                           branch |-> IF is_anomaly THEN "anomaly" ELSE "normal",
                           chance |-> chance]
        /\ UNCHANGED normal_readings_before_anomaly

\* The draws of a read: the endpoints of each interval and a value inside it.
HighExcessDraws == {0, 7333, 20000}
LowExcessDraws == {0, 3333, 10000}
FluctuationDraws == {-normal_fluctuation, 4, normal_fluctuation}

ReadTemperature(fluctuations) ==
    \E chance \in BOOLEAN, high \in BOOLEAN :
    \E excess \in IF high THEN HighExcessDraws ELSE LowExcessDraws :
    \E fluctuation \in fluctuations :
        TemperatureSensor_read(chance, high, excess, fluctuation)

set_temperature(temperature) ==
    /\ current_temperature' = temperature
    /\ UNCHANGED <<normal_readings_before_anomaly, normal_readings_count,
                   force_anomaly, temp_data>>

\* ------------------------------------------------------------------ FillLevelSensor
\* FillLevelSensor.__init__
InitFill(initial_fill_level, rate, cap, variation, threshold) ==
    /\ fill_level = Min(initial_fill_level, cap)
    /\ fill_rate = rate
    /\ capacity = cap
    /\ fill_rate_variation = variation
    /\ overflow_threshold = threshold
    /\ fill_level_data = [fillLevel |-> 0, isFull |-> FALSE, isOverflowing |-> FALSE,
                          status |-> "none", dataStatus |-> "none"]

\* The session's fill-level sensor (main.py): 1.0 %, 5.0 +- 0.1 % per read.
InitSessionFill == InitFill(1000, 5000, 100000, 100, 100000)

FillStatus_fullFirst(is_full, is_overflowing) ==
    IF is_full THEN "full" ELSE IF is_overflowing THEN "overflow" ELSE "normal"
FillStatus(is_full, is_overflowing) ==
    IF is_overflowing THEN "overflow" ELSE IF is_full THEN "full" ELSE "normal"

\* The level a read stores: the old level plus this read's rate, at most capacity.
NextFillLevel(level, current_fill_rate, cap) == Min(level + current_fill_rate, cap)

\* FillLevelSensor.read() with variation = random.uniform(-fill_rate_variation,
\* fill_rate_variation).
FillLevelSensor_read(variation) ==
    LET current_fill_rate == fill_rate + variation
        level == NextFillLevel(fill_level, current_fill_rate, capacity)
    IN  /\ fill_level' = level
        /\ \E rounded \in RoundDiv(level, 10) :
             LET is_full == 10 * rounded >= overflow_threshold
                 is_overflowing == 10 * rounded >= capacity
             IN  fill_level_data' =
                   [fillLevel |-> rounded, isFull |-> is_full,
                    isOverflowing |-> is_overflowing,
                    status |-> FillStatus(is_full, is_overflowing),
                    dataStatus |-> FillStatus(is_full, is_overflowing)]
        /\ UNCHANGED <<fill_rate, capacity, fill_rate_variation, overflow_threshold>>

\* The draws of a read: the endpoints of the interval and a value inside it.
VariationDraws == {-fill_rate_variation, 4, fill_rate_variation}

set_fill_level(level) ==
    /\ fill_level' = Min(Max(0, level), capacity)
    /\ UNCHANGED <<fill_rate, capacity, fill_rate_variation, overflow_threshold,
                   fill_level_data>>

empty_bin ==
    /\ fill_level' = 0
    /\ UNCHANGED <<fill_rate, capacity, fill_rate_variation, overflow_threshold,
                   fill_level_data>>

\* ------------------------------------------------------------------ GPSSensor
\* The session's parameters (main.py), in 1/10^7 degree.
initial_latitude == 13521000
initial_longitude == 1038198000
movement_range == 1000

InitGPS(lat, lon) ==
    /\ latitude = lat
    /\ longitude = lon
    /\ gps_data = [latitude |-> 0, longitude |-> 0]

\* GPSSensor.read() with its two draws of random.uniform(-movement_range,
\* movement_range); the reading is rounded to 6 decimals.
GPSSensor_read(dlat, dlon) ==
    LET lat == Clamp(latitude + dlat, -900000000, 900000000)
        lon == Clamp(longitude + dlon, -1800000000, 1800000000)
    IN  /\ latitude' = lat
        /\ longitude' = lon
        /\ \E rlat \in RoundDiv(lat, 10), rlon \in RoundDiv(lon, 10) :
             gps_data' = [latitude |-> rlat, longitude |-> rlon]

set_position(lat, lon) ==
    /\ latitude' = Clamp(lat, -900000000, 900000000)
    /\ longitude' = Clamp(lon, -1800000000, 1800000000)
    /\ UNCHANGED gps_data

\* ------------------------------------------------------------------ OdorSensor
\* OdorSensor.ODOR_TYPES: the intensity range of each type, in 1/10^4.
ODOR_TYPES ==
    ("organic"  :> [intensity_range |-> <<1000, 10000>>]) @@
    ("chemical" :> [intensity_range |-> <<3000, 9000>>]) @@
    ("mold"     :> [intensity_range |-> <<2000, 7000>>]) @@
    ("none"     :> [intensity_range |-> <<0, 1000>>])

\* The session's parameters (main.py): threshold and variation in 1/10^4, the
\* correlation in 1/10.
odor_threshold == 6000
odor_fill_level_correlation == 7
odor_variation == 1000

\* fill_factor = min(fill_level / 100.0, 1.0) * fill_level_correlation, in
\* 1/10^5, of a fill level in 1/100 percent.
OdorFillFactor_uncorrelated(fill) == Min(fill, 10000) * 10
OdorFillFactor(fill) == Min(fill, 10000) * odor_fill_level_correlation

\* The weights random.choices is given for a fill factor, in 1/100.
OdorWeights(fill_factor) ==
    IF fill_factor > 80000
    THEN ("organic" :> 50) @@ ("chemical" :> 30) @@ ("mold" :> 15) @@ ("none" :> 5)
    ELSE IF fill_factor > 50000
    THEN ("organic" :> 30) @@ ("chemical" :> 20) @@ ("mold" :> 30) @@ ("none" :> 20)
    ELSE IF fill_factor > 20000
    THEN ("organic" :> 10) @@ ("chemical" :> 20) @@ ("mold" :> 20) @@ ("none" :> 50)
    ELSE ("organic" :> 5) @@ ("chemical" :> 10) @@ ("mold" :> 10) @@ ("none" :> 75)

\* random.choices(types, weights): any type of positive weight.
OdorTypeDraws(fill) ==
    {t \in DOMAIN ODOR_TYPES : OdorWeights(OdorFillFactor(fill))[t] > 0}

\* intensity = max(0.0, min(1.0, base_intensity + variation))
OdorIntensity_unclamped(base_intensity, variation) == base_intensity + variation
OdorIntensity(base_intensity, variation) == Clamp(base_intensity + variation, 0, 10000)

InitOdor ==
    /\ current_odor_type = "none"
    /\ current_intensity = 0
    /\ odor_data = [odorType |-> "none", intensity |-> 0, isSignificant |-> FALSE,
                    status |-> "none", fill_level |-> 0]

\* OdorSensor.read(fill_level) with its draws: the type, base_intensity =
\* random.uniform(min_intensity, max_intensity) and variation =
\* random.uniform(-odor_variation, odor_variation).  The reading's intensity is
\* rounded to 3 decimals; odor_data.fill_level keeps the argument of the call.
OdorSensor_read(fill, odor_type, base_intensity, variation) ==
    LET intensity == OdorIntensity(base_intensity, variation)
        is_significant == intensity > odor_threshold
    IN  /\ current_odor_type' = odor_type
        /\ current_intensity' = intensity
        /\ \E rounded \in RoundDiv(intensity, 10) :
             odor_data' = [odorType |-> odor_type, intensity |-> rounded,
                           isSignificant |-> is_significant,
                           status |-> IF is_significant THEN "significant" ELSE "normal",
                           fill_level |-> fill]

\* OdorSensor.set_odor(odor_type, intensity): an odor type that is not a key of
\* ODOR_TYPES is ignored.
set_odor(odor_type, intensity) ==
    /\ IF odor_type \in DOMAIN ODOR_TYPES
       THEN /\ current_odor_type' = odor_type
            /\ current_intensity' = Clamp(intensity, 0, 10000)
       ELSE UNCHANGED <<current_odor_type, current_intensity>>
    /\ UNCHANGED odor_data

\* The draws of a read: the endpoints of each interval and a value inside it.
OdorBaseDraws(odor_type) ==
    LET min_intensity == ODOR_TYPES[odor_type].intensity_range[1]
        max_intensity == ODOR_TYPES[odor_type].intensity_range[2]
    IN  {min_intensity, min_intensity + 4, max_intensity}
OdorVariationDraws == {-odor_variation, 1, odor_variation}

\* ------------------------------------------------------------------ HumiditySensor
\* The session's parameters (main.py): percentages in 1/10^4 percent, the
\* correlation in 1/10.
base_humidity == 500000
humidity_variation == 50000
high_humidity_threshold == 750000
mold_risk_threshold == 800000
humidity_fill_level_correlation == 6

\* humidity = max(0.0, min(100.0, base_humidity + fill_factor * 30.0 + variation))
\* with fill_factor = min(fill_level / 100.0, 1.0) * fill_level_correlation.
HumidityLevel(fill, variation) ==
    Clamp(base_humidity + Min(fill, 10000) * humidity_fill_level_correlation * 3
              + variation,
          0, 1000000)

\* mold_risk in 1/100 percent, rounded to 2 decimals.
MoldRisk(humidity) ==
    IF humidity > mold_risk_threshold
    THEN {Min(10000, r) :
            r \in RoundDiv((humidity - mold_risk_threshold) * 100,
                           (1000000 - mold_risk_threshold) \div 100)}
    ELSE {0}

InitHumidity ==
    /\ current_humidity = base_humidity
    /\ humidity_data = [humidity |-> 0, isHigh |-> FALSE, isMoldRisk |-> FALSE,
                        moldRiskPercentage |-> 0, status |-> "none", fill_level |-> 0]

HumiditySensor_read_fromCurrent(fill, variation) ==
    LET humidity == Clamp(HumidityLevel(fill, variation) + current_humidity - base_humidity,
                          0, 1000000)
        is_high == humidity > high_humidity_threshold
        is_mold_risk == humidity > mold_risk_threshold
    IN  /\ current_humidity' = humidity
        /\ \E rounded \in RoundDiv(humidity, 100), mold_risk \in MoldRisk(humidity) :
             humidity_data' =
               [humidity |-> rounded, isHigh |-> is_high, isMoldRisk |-> is_mold_risk,
                moldRiskPercentage |-> mold_risk,
                status |-> IF is_mold_risk THEN "mold_risk"
                           ELSE IF is_high THEN "high" ELSE "normal",
                fill_level |-> fill]

\* HumiditySensor.read(fill_level) with variation =
\* random.uniform(-humidity_variation, humidity_variation).  The reading is
\* rounded to 2 decimals; humidity_data.fill_level keeps the argument.
HumiditySensor_read(fill, variation) ==
    LET humidity == HumidityLevel(fill, variation)
        is_high == humidity > high_humidity_threshold
        is_mold_risk == humidity > mold_risk_threshold
    IN  /\ current_humidity' = humidity
        /\ \E rounded \in RoundDiv(humidity, 100), mold_risk \in MoldRisk(humidity) :
             humidity_data' =
               [humidity |-> rounded, isHigh |-> is_high, isMoldRisk |-> is_mold_risk,
                moldRiskPercentage |-> mold_risk,
                status |-> IF is_mold_risk THEN "mold_risk"
                           ELSE IF is_high THEN "high" ELSE "normal",
                fill_level |-> fill]

HumidityVariationDraws == {-humidity_variation, 1, humidity_variation}

set_humidity(humidity) ==
    /\ current_humidity' = Clamp(humidity, 0, 1000000)
    /\ UNCHANGED humidity_data

\* ------------------------------------------------------------------ AirQualitySensor
\* AirQualitySensor.AQI_CATEGORIES in their order, the ranges in 1/1000.
AQI_CATEGORIES ==
    << [name |-> "good", range |-> <<0, 50000>>],
       [name |-> "moderate", range |-> <<51000, 100000>>],
       [name |-> "unhealthy_sensitive", range |-> <<101000, 150000>>],
       [name |-> "unhealthy", range |-> <<151000, 200000>>],
       [name |-> "very_unhealthy", range |-> <<201000, 300000>>],
       [name |-> "hazardous", range |-> <<301000, 500000>>] >>

\* The session's parameters (main.py): AQI in 1/1000, the correlations in 1/10.
base_aqi == 50000
aqi_variation == 10000
aqi_fill_level_correlation == 7
temperature_correlation == 5

\* The first category whose range holds aqi, or `otherwise` when none does.
CategoryOf(aqi, otherwise) ==
    LET hits == {k \in DOMAIN AQI_CATEGORIES :
                   /\ AQI_CATEGORIES[k].range[1] <= aqi
                   /\ aqi <= AQI_CATEGORIES[k].range[2]}
    IN  IF hits = {} THEN otherwise
        ELSE AQI_CATEGORIES[CHOOSE k \in hits : \A m \in hits : k <= m].name

\* The category loop of read(): it starts from "good".
ReadCategory(aqi) == CategoryOf(aqi, "good")

\* get_category_for_aqi(aqi): it falls back to "hazardous".
get_category_for_aqi(aqi) == CategoryOf(aqi, "hazardous")

\* aqi = max(0.0, min(500.0, base_aqi + fill_factor * 100 + temp_factor * 50 +
\* variation)) with fill_factor = min(fill_level / 100, 1) * fill_level_correlation
\* and temp_factor = max(0, (temperature - 25) / 25) * temperature_correlation;
\* fill_level in 1/100 percent, temperature in 1/100 degree.
AqiLevel(fill, temperature, variation) ==
    Clamp(base_aqi + Min(fill, 10000) * aqi_fill_level_correlation
              + Max(0, temperature - 2500) * temperature_correlation * 2
              + variation,
          0, 500000)

InitAirQuality ==
    /\ current_aqi = base_aqi
    /\ air_quality_data = [aqi |-> 0, category |-> "none", fill_level |-> 0,
                           temperature |-> 0]

\* AirQualitySensor.read(fill_level, temperature) with variation =
\* random.uniform(-aqi_variation, aqi_variation).  The reading is rounded to 2
\* decimals; air_quality_data.fill_level and .temperature keep the arguments.
AirQualitySensor_read(fill, temperature, variation) ==
    LET aqi == AqiLevel(fill, temperature, variation)
    IN  /\ current_aqi' = aqi
        /\ \E rounded \in RoundDiv(aqi, 10) :
             air_quality_data' = [aqi |-> rounded, category |-> ReadCategory(aqi),
                                  fill_level |-> fill,
                                  temperature |-> temperature]

AqiVariationDraws == {-aqi_variation, 1, aqi_variation}

set_aqi(aqi) ==
    /\ current_aqi' = Clamp(aqi, 0, 500000)
    /\ UNCHANGED air_quality_data

\* ------------------------------------------------------------------ the session
\* WasteBinIoTSimulation.__init__ registers three users; self.users holds them
\* in this order.
UserNames == <<"John Smith", "Maria Garcia", "Ahmed Hassan">>
users == <<1, 2, 3>>

\* A behaviour explores the random draws of one part of the session over their
\* whole range and gives every other draw one fixed value: "control" explores
\* the telemetry client and the shutdown requests, "ledger" the detector and
\* the redemption step, the others the sensor they name.
Profiles == {"control", "ledger", "gps", "temperature", "fill_level", "odor",
             "humidity", "air_quality"}
Drawn(name, all, one) == IF profile = name THEN all ELSE one

ReadingsCap == IF profile = "fill_level" THEN MaxFillReadings ELSE MaxReadings
NumReadingsArgs == {2, ReadingsCap}

GPSDraws ==
    Drawn("gps",
          {<<movement_range, movement_range>>, <<-movement_range, -movement_range>>,
           <<4, -4>>},
          {<<movement_range, -movement_range>>})
SessionTemperatureDraws ==
    Drawn("temperature",
          {d \in BOOLEAN \X BOOLEAN \X (HighExcessDraws \cup LowExcessDraws)
                    \X FluctuationDraws :
             d[3] \in IF d[2] THEN HighExcessDraws ELSE LowExcessDraws},
          {<<FALSE, TRUE, 20000, normal_fluctuation>>})
SessionDetections ==
    Drawn("ledger", {<<"paper", 1, 2000>>, <<"e-waste", 4, 2000>>, <<"plastic", 1, 300>>},
          {})
SessionFillDraws == Drawn("fill_level", VariationDraws, {fill_rate_variation})
SessionOdorDraws(fill) ==
    Drawn("odor",
          {<<odor_type, base_intensity, variation>> :
             odor_type \in OdorTypeDraws(fill),
             base_intensity \in UNION {OdorBaseDraws(t) : t \in DOMAIN ODOR_TYPES},
             variation \in OdorVariationDraws},
          {<<"organic", 10000, odor_variation>>})
SessionHumidityDraws == Drawn("humidity", HumidityVariationDraws, {humidity_variation})
SessionAqiDraws == Drawn("air_quality", AqiVariationDraws, {aqi_variation})
\* connect_with_retry() -> bool, and how the client's send_telemetry ends.
ConnectDraws == Drawn("control", BOOLEAN, {TRUE})
SendDraws == Drawn("control", {"sent", "false", "raised"}, {"sent"})

\* The order of the statements of one tick.
BatchTickOrder_odorFirst ==
    <<"select_user", "gps", "temperature", "recyclable", "odor", "fill_level",
      "humidity", "air_quality", "combine", "send", "redeem", "sleep">>
BatchTickOrder_detectorLast ==
    <<"select_user", "gps", "temperature", "fill_level", "odor", "humidity",
      "air_quality", "recyclable", "combine", "send", "redeem", "sleep">>
BatchTickOrder ==
    <<"select_user", "gps", "temperature", "recyclable", "fill_level", "odor",
      "humidity", "air_quality", "combine", "send", "redeem", "sleep">>
ContinuousTickOrder ==
    <<"gps", "temperature", "select_user", "recyclable", "fill_level", "odor",
      "humidity", "air_quality", "combine", "send", "count", "sleep">>
TickOrder == IF mode = "batch" THEN BatchTickOrder ELSE ContinuousTickOrder
PositionOf(name) == CHOOSE k \in DOMAIN TickOrder : TickOrder[k] = name
At(name) == pc = "tick" /\ TickOrder[step] = name

NoRecord ==
    [userId |-> None, tokenBalance |-> 0, latitude |-> 0, longitude |-> 0,
     temperature |-> 0, isAnomaly |-> FALSE, materialDetected |-> FALSE,
     tokensAwarded |-> 0, fillLevel |-> 0, odorIntensity |-> 0, humidity |-> 0,
     aqi |-> 0]

\* The composite record of a tick (combined_data, flattened as
\* format_telemetry_for_azure does).
CombinedData_beforeAward ==
    [userId |-> current_user, tokenBalance |-> token_balance[current_user] - recyclable_data.tokensAwarded,
     latitude |-> gps_data.latitude, longitude |-> gps_data.longitude,
     temperature |-> temp_data.temperature, isAnomaly |-> temp_data.isAnomaly,
     materialDetected |-> recyclable_data.materialDetected,
     tokensAwarded |-> recyclable_data.tokensAwarded,
     fillLevel |-> fill_level_data.fillLevel, odorIntensity |-> odor_data.intensity,
     humidity |-> humidity_data.humidity, aqi |-> air_quality_data.aqi]
CombinedData ==
    [userId |-> current_user, tokenBalance |-> token_balance[current_user],
     latitude |-> gps_data.latitude, longitude |-> gps_data.longitude,
     temperature |-> temp_data.temperature, isAnomaly |-> temp_data.isAnomaly,
     materialDetected |-> recyclable_data.materialDetected,
     tokensAwarded |-> recyclable_data.tokensAwarded,
     fillLevel |-> fill_level_data.fillLevel, odorIntensity |-> odor_data.intensity,
     humidity |-> humidity_data.humidity, aqi |-> air_quality_data.aqi]

\* send_telemetry_to_azure(telemetry_data), given how the client's
\* send_telemetry ended: it returns the client's result, and False when the
\* client raised, so nothing escapes it.
send_telemetry_to_azure_uncaught(outcome) ==
    [success |-> outcome = "sent", raised |-> outcome = "raised"]
send_telemetry_to_azure(outcome) ==
    [success |-> outcome = "sent", raised |-> FALSE]

runFixed == <<profile, mode, num_readings>>

InitEnv ==
    /\ InitGPS(initial_latitude, initial_longitude)
    /\ InitOdor
    /\ InitHumidity
    /\ InitAirQuality

\* No session is running.
InitNoSession ==
    /\ profile = "none" /\ mode = "none" /\ num_readings = 0
    /\ pc = "done" /\ step = 1 /\ i = 0
    /\ running = FALSE /\ connected = FALSE
    /\ current_user = None /\ combined_data = NoRecord
    /\ telemetry = "none" /\ reads = <<>> /\ sleeps = 0

\* WasteBinIoTSimulation.__init__ and the start of run_simulation or
\* run_continuous_simulation.
InitSession ==
    /\ profile \in Profiles
    /\ mode \in {"batch", "continuous"}
    /\ num_readings \in IF mode = "batch" THEN NumReadingsArgs ELSE {0}
    /\ user_name = [k \in DOMAIN users |-> UserNames[k]]
    /\ token_balance = [k \in DOMAIN users |-> 0]
    /\ redemption_history = [k \in DOMAIN users |-> <<>>]
    /\ InitSeen
    /\ InitDetector(session_detection_probabilities)
    /\ token_manager = TRUE
    /\ redemption_outcome = "none"
    /\ InitTemperature(3)
    /\ InitSessionFill
    /\ fill_calls = 0
    /\ InitEnv
    /\ pc = "connect" /\ step = 1 /\ i = 0
    /\ running = TRUE /\ connected = FALSE
    /\ current_user = None /\ combined_data = NoRecord
    /\ telemetry = "none" /\ reads = <<>> /\ sleeps = 0

\* await self.azure_client.connect_with_retry(): the result is only printed.
Connect ==
    /\ pc = "connect"
    /\ \E ok \in ConnectDraws : connected' = ok
    /\ pc' = "loop"
    /\ ret' = NoCall
    /\ UNCHANGED <<ledgerVars, seenVars, detVars, redemption_outcome, tempVars, fillVars,
                   fill_calls, envVars, runFixed, step, i, running, current_user,
                   combined_data, telemetry, reads, sleeps>>

\* `for i in range(num_readings)` / `while running`.  A continuous run is
\* followed for ReadingsCap ticks.
LoopHead ==
    /\ pc = "loop"
    /\ IF mode = "batch"
       THEN pc' = IF i < num_readings THEN "tick" ELSE "finally"
       ELSE IF running THEN i < ReadingsCap /\ pc' = "tick" ELSE pc' = "finally"
    /\ step' = 1
    /\ reads' = <<>>
    /\ ret' = NoCall
    /\ UNCHANGED <<ledgerVars, seenVars, detVars, redemption_outcome, tempVars, fillVars,
                   fill_calls, envVars, runFixed, i, running, connected, current_user,
                   combined_data, telemetry, sleeps>>

\* What a statement of the tick that calls no ledger and reads sensor `name`
\* does to the rest of the state.
SensorStep(name) ==
    /\ pc' = "tick" /\ step' = step + 1
    /\ reads' = Append(reads, name)
    /\ ret' = NoCall
    /\ UNCHANGED <<ledgerVars, seenVars, detVars, redemption_outcome, fill_calls,
                   runFixed, i, running, connected, current_user, combined_data,
                   telemetry, sleeps>>

TickSelectUser_firstUser ==
    /\ At("select_user")
    /\ current_user' = users[1]
    /\ set_current_user(current_user')
    /\ pc' = "tick" /\ step' = step + 1
    /\ ret' = NoCall
    /\ UNCHANGED <<ledgerVars, seenVars, token_manager, recyclable_data,
                   detection_probabilities,
                   redemption_outcome, tempVars, fillVars, fill_calls, envVars, runFixed,
                   i, running, connected, combined_data, telemetry, reads, sleeps>>

\* current_user = users[i % len(users)]; set_current_user(current_user.user_id)
TickSelectUser ==
    /\ At("select_user")
    /\ current_user' = users[(i % Len(users)) + 1]
    /\ set_current_user(current_user')
    /\ pc' = "tick" /\ step' = step + 1
    /\ ret' = NoCall
    /\ UNCHANGED <<ledgerVars, seenVars, token_manager, recyclable_data,
                   detection_probabilities,
                   redemption_outcome, tempVars, fillVars, fill_calls, envVars, runFixed,
                   i, running, connected, combined_data, telemetry, reads, sleeps>>

TickReadGPS ==
    /\ At("gps")
    /\ \E d \in GPSDraws : GPSSensor_read(d[1], d[2])
    /\ SensorStep("gps")
    /\ UNCHANGED <<tempVars, fillVars, odorVars, humidityVars, aqiVars>>

TickReadTemperature ==
    /\ At("temperature")
    /\ \E d \in SessionTemperatureDraws : TemperatureSensor_read(d[1], d[2], d[3], d[4])
    /\ SensorStep("temperature")
    /\ UNCHANGED <<fillVars, envVars>>

TickReadRecyclable ==
    /\ At("recyclable")
    /\ \/ DetectNothing
       \/ \E d \in SessionDetections : Detect(d[1], d[2], d[3])
    /\ SeenAs(recyclable_data'.tokensAwarded)
    /\ pc' = "tick" /\ step' = step + 1
    /\ reads' = Append(reads, "recyclable")
    /\ UNCHANGED <<token_manager, current_user_id, detection_probabilities,
                   redemption_outcome, tempVars,
                   fillVars, fill_calls, envVars, runFixed, i, running, connected,
                   current_user, combined_data, telemetry, sleeps>>

TickReadFillLevel ==
    /\ At("fill_level")
    /\ \E variation \in SessionFillDraws : FillLevelSensor_read(variation)
    /\ SensorStep("fill_level")
    /\ UNCHANGED <<tempVars, envVars>>

\* odor_sensor.read(fill_level=fill_level_data["fillLevel"])
TickReadOdor ==
    /\ At("odor")
    /\ \E d \in SessionOdorDraws(fill_level_data.fillLevel) :
         /\ d[2] \in OdorBaseDraws(d[1])
         /\ OdorSensor_read(fill_level_data.fillLevel, d[1], d[2], d[3])
    /\ SensorStep("odor")
    /\ UNCHANGED <<tempVars, fillVars, gpsVars, humidityVars, aqiVars>>

\* humidity_sensor.read(fill_level=fill_level_data["fillLevel"])
TickReadHumidity ==
    /\ At("humidity")
    /\ \E variation \in SessionHumidityDraws :
         HumiditySensor_read(fill_level_data.fillLevel, variation)
    /\ SensorStep("humidity")
    /\ UNCHANGED <<tempVars, fillVars, gpsVars, odorVars, aqiVars>>

\* air_quality_sensor.read(fill_level=fill_level_data["fillLevel"],
\*                         temperature=temp_data["temperature"])
TickReadAirQuality ==
    /\ At("air_quality")
    /\ \E variation \in SessionAqiDraws :
         AirQualitySensor_read(fill_level_data.fillLevel, temp_data.temperature,
                               variation)
    /\ SensorStep("air_quality")
    /\ UNCHANGED <<tempVars, fillVars, gpsVars, odorVars, humidityVars>>

\* combined_data = {...}; azure_telemetry = format_telemetry_for_azure(combined_data)
TickCombine ==
    /\ At("combine")
    /\ combined_data' = CombinedData
    /\ pc' = "tick" /\ step' = step + 1
    /\ ret' = NoCall
    /\ UNCHANGED <<ledgerVars, seenVars, detVars, redemption_outcome, tempVars, fillVars,
                   fill_calls, envVars, runFixed, i, running, connected, current_user,
                   telemetry, reads, sleeps>>

\* success = await send_telemetry_to_azure(azure_telemetry): the result is only
\* printed.  An exception here would be caught by the tick's `except Exception`:
\* the batch run goes on to its redemption step, the continuous run sleeps 1 s
\* and starts the loop again.
TickSend_retries ==
    /\ At("send")
    /\ \E outcome \in SendDraws :
         /\ telemetry' = outcome
         /\ IF outcome = "sent"
            THEN pc' = "tick" /\ step' = step + 1
            ELSE pc' = "tick" /\ step' = step
    /\ ret' = NoCall
    /\ UNCHANGED <<ledgerVars, seenVars, detVars, redemption_outcome, tempVars, fillVars,
                   fill_calls, envVars, runFixed, i, running, connected, current_user,
                   combined_data, reads, sleeps>>
TickSend ==
    /\ At("send")
    /\ \E outcome \in SendDraws :
         /\ telemetry' = outcome
         /\ IF send_telemetry_to_azure(outcome).raised
            THEN IF mode = "batch"
                 THEN pc' = "tick" /\ step' = PositionOf("redeem")
                 ELSE pc' = "loop" /\ step' = 1
            ELSE pc' = "tick" /\ step' = step + 1
    /\ ret' = NoCall
    /\ UNCHANGED <<ledgerVars, seenVars, detVars, redemption_outcome, tempVars, fillVars,
                   fill_calls, envVars, runFixed, i, running, connected, current_user,
                   combined_data, reads, sleeps>>

\* if i > 0 and i % 5 == 0: await self._simulate_token_redemption(i); an
\* exception it raises ends the loop.  redemption_outcome is "none" after a
\* tick that made no call.
TickRedeem_atTickZero ==
    /\ At("redeem")
    /\ IF i % 5 = 0
       THEN /\ simulate_token_redemption(Range(users))
            /\ SeenAs(ret'.tokens)
            /\ IF redemption_outcome' = "raised"
               THEN pc' = "finally" /\ step' = step
               ELSE pc' = "tick" /\ step' = step + 1
       ELSE /\ ret' = NoCall
            /\ redemption_outcome' = "none"
            /\ UNCHANGED <<ledgerVars, seenVars>>
            /\ pc' = "tick" /\ step' = step + 1
    /\ UNCHANGED <<detVars, tempVars, fillVars, fill_calls, envVars, runFixed, i,
                   running, connected, current_user, combined_data, telemetry, reads,
                   sleeps>>
TickRedeem ==
    /\ At("redeem")
    /\ IF i > 0 /\ i % 5 = 0
       THEN /\ simulate_token_redemption(Range(users))
            /\ SeenAs(ret'.tokens)
            /\ IF redemption_outcome' = "raised"
               THEN pc' = "finally" /\ step' = step
               ELSE pc' = "tick" /\ step' = step + 1
       ELSE /\ ret' = NoCall
            /\ redemption_outcome' = "none"
            /\ UNCHANGED <<ledgerVars, seenVars>>
            /\ pc' = "tick" /\ step' = step + 1
    /\ UNCHANGED <<detVars, tempVars, fillVars, fill_calls, envVars, runFixed, i,
                   running, connected, current_user, combined_data, telemetry, reads,
                   sleeps>>

TickCount_byTwo ==
    /\ At("count")
    /\ i' = i + 2
    /\ pc' = "tick" /\ step' = step + 1
    /\ ret' = NoCall
    /\ UNCHANGED <<ledgerVars, seenVars, detVars, redemption_outcome, tempVars, fillVars,
                   fill_calls, envVars, runFixed, running, connected, current_user,
                   combined_data, telemetry, reads, sleeps>>

\* reading_count += 1
TickCount ==
    /\ At("count")
    /\ i' = i + 1
    /\ pc' = "tick" /\ step' = step + 1
    /\ ret' = NoCall
    /\ UNCHANGED <<ledgerVars, seenVars, detVars, redemption_outcome, tempVars, fillVars,
                   fill_calls, envVars, runFixed, running, connected, current_user,
                   combined_data, telemetry, reads, sleeps>>

\* `if i < num_readings - 1: await asyncio.sleep(delay_seconds)` and the next i /
\* `if running: await asyncio.sleep(delay_seconds)`.
TickSleep ==
    /\ At("sleep")
    /\ IF mode = "batch"
       THEN /\ sleeps' = IF i < num_readings - 1 THEN sleeps + 1 ELSE sleeps
            /\ i' = i + 1
       ELSE /\ sleeps' = IF running THEN sleeps + 1 ELSE sleeps
            /\ i' = i
    /\ pc' = "loop" /\ step' = 1
    /\ ret' = NoCall
    /\ UNCHANGED <<ledgerVars, seenVars, detVars, redemption_outcome, tempVars, fillVars,
                   fill_calls, envVars, runFixed, running, connected, current_user,
                   combined_data, telemetry, reads>>

\* The end of the run: disconnect when connected, then _print_final_results().
Finally ==
    /\ pc = "finally"
    /\ connected' = FALSE
    /\ pc' = "done"
    /\ ret' = NoCall
    /\ UNCHANGED <<ledgerVars, seenVars, detVars, redemption_outcome, tempVars, fillVars,
                   fill_calls, envVars, runFixed, step, i, running, current_user,
                   combined_data, telemetry, reads, sleeps>>

\* signal_handler(sig, frame) of the continuous run: running = False.
signal_handler_interrupts ==
    /\ profile \in {"control", "ledger"} /\ mode = "continuous"
    /\ running /\ pc \notin {"done", "aborted"}
    /\ running' = FALSE
    /\ pc' = "finally"
    /\ ret' = NoCall
    /\ UNCHANGED <<ledgerVars, seenVars, detVars, redemption_outcome, tempVars, fillVars,
                   fill_calls, envVars, runFixed, step, i, connected, current_user,
                   combined_data, telemetry, reads, sleeps>>
signal_handler ==
    /\ profile \in {"control", "ledger"} /\ mode = "continuous"
    /\ running /\ pc \notin {"done", "aborted"}
    /\ running' = FALSE
    /\ ret' = NoCall
    /\ UNCHANGED <<ledgerVars, seenVars, detVars, redemption_outcome, tempVars, fillVars,
                   fill_calls, envVars, runFixed, pc, step, i, connected, current_user,
                   combined_data, telemetry, reads, sleeps>>

\* A KeyboardInterrupt in a batch run: inside the try it ends the loop and the
\* finally clause runs; during the connect, which is before the try, it leaves
\* run_simulation at once.
KeyboardInterrupt ==
    /\ profile = "control" /\ mode = "batch"
    /\ running /\ pc \in {"connect", "loop", "tick"}
    /\ running' = FALSE
    /\ pc' = IF pc = "connect" THEN "aborted" ELSE "finally"
    /\ ret' = NoCall
    /\ UNCHANGED <<ledgerVars, seenVars, detVars, redemption_outcome, tempVars, fillVars,
                   fill_calls, envVars, runFixed, step, i, connected, current_user,
                   combined_data, telemetry, reads, sleeps>>

Next ==
    \/ Connect
    \/ LoopHead
    \/ TickSelectUser
    \/ TickReadGPS
    \/ TickReadTemperature
    \/ TickReadRecyclable
    \/ TickReadFillLevel
    \/ TickReadOdor
    \/ TickReadHumidity
    \/ TickReadAirQuality
    \/ TickCombine
    \/ TickSend
    \/ TickRedeem
    \/ TickCount
    \/ TickSleep
    \/ Finally
    \/ signal_handler
    \/ KeyboardInterrupt

Spec == InitSession /\ [][Next]_vars

\* ------------------------------------------------------------------ SpecLedger
\* The ledger, the detector and the redemption step called in any order with
\* any arguments.
AwardArgs == {<<"plastic", 300>>, <<"glass", 110>>, <<"wood", 300>>}
RedeemArgs == {<<60, "cash">>, <<500, "voucher">>, <<60, "coupon">>}

InitLedger ==
    /\ user_name = <<>>
    /\ token_balance = <<>>
    /\ redemption_history = <<>>
    /\ InitSeen
    /\ InitDetector(session_detection_probabilities)
    /\ token_manager \in BOOLEAN
    /\ redemption_outcome = "none"

\* A step of SpecLedger keeps only what its own call returned.
CallRegister ==
    /\ \E name \in Names :
         /\ \A id \in Registered : user_name[id] # name
         /\ register_user(name)
    /\ SeenAs(ret'.tokens)
    /\ recyclable_data' = NoDetection /\ redemption_outcome' = "none"
    /\ UNCHANGED <<token_manager, current_user_id, detection_probabilities>>

CallAward ==
    /\ ops < MaxOps
    /\ \E user_id \in Registered \cup {NoSuchUser}, a \in AwardArgs :
         award_tokens(user_id, a[1], "any", a[2], ops)
    /\ SeenAs(ret'.tokens)
    /\ recyclable_data' = NoDetection /\ redemption_outcome' = "none"
    /\ UNCHANGED <<token_manager, current_user_id, detection_probabilities>>

CallRedeem ==
    /\ ops < MaxOps
    /\ \E user_id \in Registered \cup {NoSuchUser}, a \in RedeemArgs :
         redeem_tokens(user_id, a[1], a[2])
    /\ SeenAs(ret'.tokens)
    /\ recyclable_data' = NoDetection /\ redemption_outcome' = "none"
    /\ UNCHANGED <<token_manager, current_user_id, detection_probabilities>>

CallSetCurrentUser ==
    /\ \E user_id \in Registered \cup {None, NoSuchUser} : set_current_user(user_id)
    /\ ret' = NoCall
    /\ SeenAs(ret'.tokens)
    /\ recyclable_data' = NoDetection /\ redemption_outcome' = "none"
    /\ UNCHANGED <<ledgerVars, token_manager, detection_probabilities>>

CallDetectorRead ==
    /\ ops < MaxOps
    /\ RecyclableSensor_read
    /\ SeenAs(recyclable_data'.tokensAwarded)
    /\ redemption_outcome' = "none"
    /\ UNCHANGED <<token_manager, current_user_id, detection_probabilities>>

CallSimulateRedemption ==
    /\ ops < MaxOps
    /\ Registered # {}
    /\ simulate_token_redemption(Registered)
    /\ SeenAs(ret'.tokens)
    /\ recyclable_data' = NoDetection
    /\ UNCHANGED <<token_manager, current_user_id, detection_probabilities>>

NextLedger ==
    \/ CallRegister /\ UNCHANGED <<tempVars, fillVars, fill_calls, envVars, runVars>>
    \/ CallAward /\ UNCHANGED <<tempVars, fillVars, fill_calls, envVars, runVars>>
    \/ CallRedeem /\ UNCHANGED <<tempVars, fillVars, fill_calls, envVars, runVars>>
    \/ CallSetCurrentUser /\ UNCHANGED <<tempVars, fillVars, fill_calls, envVars, runVars>>
    \/ CallDetectorRead /\ UNCHANGED <<tempVars, fillVars, fill_calls, envVars, runVars>>
    \/ CallSimulateRedemption /\ UNCHANGED <<tempVars, fillVars, fill_calls, envVars, runVars>>

InitSpecLedger ==
    /\ InitLedger
    /\ InitTemperature(3)
    /\ InitSessionFill
    /\ fill_calls = 0
    /\ InitEnv
    /\ InitNoSession

SpecLedger == InitSpecLedger /\ [][NextLedger]_vars

\* ------------------------------------------------------------------ SpecTemperature
\* A temperature sensor read and set in any order.
ThresholdArgs == {1, 3}
TemperatureArgs == {-5000, 60000}

othersOfTemp == <<ledgerVars, ret, seenVars, detVars, redemption_outcome, fillVars,
                  fill_calls, envVars, runVars>>

CallTemperatureRead == ReadTemperature(FluctuationDraws) /\ UNCHANGED othersOfTemp

CallSetTemperature ==
    /\ \E temperature \in TemperatureArgs : set_temperature(temperature)
    /\ UNCHANGED othersOfTemp

NextTemperature ==
    \/ CallTemperatureRead
    \/ CallSetTemperature

InitSpecTemperature ==
    /\ InitLedger
    /\ token_manager = FALSE
    /\ \E n \in ThresholdArgs : InitTemperature(n)
    /\ InitSessionFill
    /\ fill_calls = 0
    /\ InitEnv
    /\ InitNoSession

SpecTemperature == InitSpecTemperature /\ [][NextTemperature]_vars

\* ------------------------------------------------------------------ SpecFill
\* A fill-level sensor built with any parameters, then read, set and emptied in
\* any order.
InitialLevelArgs == {-5000, 10000, 150000}
RateArgs == {50, 30000}
RateVariationArgs == {20, 100}
CapacityArgs == {100000}
ThresholdLevelArgs == {95000}
LevelArgs == {-1000, 50000, 94942, 200000}

othersOfFill == <<ledgerVars, ret, seenVars, detVars, redemption_outcome, tempVars,
                  envVars, runVars>>

CallFillRead ==
    /\ fill_calls < MaxFillCalls
    /\ fill_calls' = fill_calls + 1
    /\ \E variation \in VariationDraws : FillLevelSensor_read(variation)
    /\ UNCHANGED othersOfFill

CallSetFillLevel ==
    /\ fill_calls < MaxFillCalls
    /\ fill_calls' = fill_calls + 1
    /\ \E level \in LevelArgs : set_fill_level(level)
    /\ UNCHANGED othersOfFill

CallEmptyBin ==
    /\ fill_calls < MaxFillCalls
    /\ fill_calls' = fill_calls + 1
    /\ empty_bin
    /\ UNCHANGED othersOfFill

NextFill ==
    \/ CallFillRead
    \/ CallSetFillLevel
    \/ CallEmptyBin

InitSpecFill ==
    /\ InitLedger
    /\ token_manager = FALSE
    /\ InitTemperature(3)
    /\ \E initial_fill_level \in InitialLevelArgs, rate \in RateArgs,
          cap \in CapacityArgs, variation \in RateVariationArgs,
          threshold \in ThresholdLevelArgs :
         InitFill(initial_fill_level, rate, cap, variation, threshold)
    /\ fill_calls = 0
    /\ InitEnv
    /\ InitNoSession

SpecFill == InitSpecFill /\ [][NextFill]_vars

\* ------------------------------------------------------------------ SpecDetector
\* A detector built without a ledger and with any probabilities, then
\* reconfigured and read in any order.
ProbabilityArgs ==
    {NoProbabilities,
     session_detection_probabilities,
     ("plastic" :> 100),
     ("paper" :> 50) @@ ("glass" :> 49),
     ("paper" :> 30) @@ ("plastic" :> 20),
     ("plastic" :> 60) @@ ("metal" :> 61)}

othersOfDet == <<ledgerVars, seenVars, redemption_outcome, tempVars, fillVars,
                 fill_calls, envVars, runVars>>

CallSetDetectionProbabilities ==
    /\ \E probabilities \in ProbabilityArgs \ {NoProbabilities} :
         set_detection_probabilities(probabilities)
    /\ ret' = NoCall
    /\ UNCHANGED <<token_manager, current_user_id, recyclable_data>>
    /\ UNCHANGED othersOfDet

CallRead ==
    /\ RecyclableSensor_read
    /\ UNCHANGED <<token_manager, current_user_id, detection_probabilities>>
    /\ UNCHANGED <<seenVars, redemption_outcome, tempVars, fillVars, fill_calls,
                   envVars, runVars>>

CallSetUser ==
    /\ \E user_id \in {None, 1} : set_current_user(user_id)
    /\ ret' = NoCall
    /\ UNCHANGED <<token_manager, recyclable_data, detection_probabilities>>
    /\ UNCHANGED othersOfDet

NextDetector ==
    \/ CallSetDetectionProbabilities
    \/ CallRead
    \/ CallSetUser

InitSpecDetector ==
    /\ user_name = <<>> /\ token_balance = <<>> /\ redemption_history = <<>>
    /\ InitSeen
    /\ \E probabilities \in ProbabilityArgs : InitDetector(probabilities)
    /\ token_manager = FALSE
    /\ redemption_outcome = "none"
    /\ InitTemperature(3)
    /\ InitSessionFill
    /\ fill_calls = 0
    /\ InitEnv
    /\ InitNoSession

SpecDetector == InitSpecDetector /\ [][NextDetector]_vars

\* ------------------------------------------------------------------ SpecAirQuality
\* The session's air-quality sensor read with any fill level and temperature,
\* and set, in any order.  Fill levels in 1/100 percent, temperatures in 1/100
\* degree, AQI in 1/1000.
AqiFillArgs == {0, 1500, 7200, 10000}
AqiTemperatureArgs == {2200, 4000, 7000}
AqiArgs == {-5000, 100500, 600000}

othersOfAqi == <<ledgerVars, ret, seenVars, detVars, redemption_outcome, tempVars,
                 fillVars, fill_calls, gpsVars, odorVars, humidityVars, runVars>>

CallAqiRead ==
    /\ \E fill \in AqiFillArgs, temperature \in AqiTemperatureArgs,
          variation \in AqiVariationDraws :
         AirQualitySensor_read(fill, temperature, variation)
    /\ UNCHANGED othersOfAqi

CallSetAqi ==
    /\ \E aqi \in AqiArgs : set_aqi(aqi)
    /\ UNCHANGED othersOfAqi

NextAirQuality ==
    \/ CallAqiRead
    \/ CallSetAqi

InitSpecAirQuality ==
    /\ InitLedger
    /\ token_manager = FALSE
    /\ InitTemperature(3)
    /\ InitSessionFill
    /\ fill_calls = 0
    /\ InitEnv
    /\ InitNoSession

SpecAirQuality == InitSpecAirQuality /\ [][NextAirQuality]_vars

\* ------------------------------------------------------------------ SpecSetters
\* The session's humidity, odor and air-quality sensors, each read and set by
\* hand in any order, one sensor per run.  `reads` is the log of the calls made,
\* at most MaxOps of them.  Fill levels in 1/100 percent, temperatures in 1/100
\* degree, humidity in 1/10^4 percent, intensity in 1/10^4, AQI in 1/1000.
SetterFillArgs == {1500, 10000}
SetterTemperatureArgs == {2200, 4000}
HumidityArgs == {-30000, 900000, 1200000}
OdorArgs == {<<"mold", 5000>>, <<"chemical", 20000>>, <<"smoke", 5000>>}
SetterOdorBaseDraws(odor_type) == {ODOR_TYPES[odor_type].intensity_range[1],
                                   ODOR_TYPES[odor_type].intensity_range[2]}
SetterOdorVariationDraws == {-odor_variation, odor_variation}

othersOfSetters == <<ledgerVars, ret, seenVars, detVars, redemption_outcome, tempVars,
                     fillVars, fill_calls, gpsVars, profile, mode, pc, step, i,
                     num_readings, running, connected, current_user, combined_data,
                     telemetry, sleeps>>

\* The call `name` is made on a sensor whose calls are `names`.
Logged(name, names) ==
    /\ Len(reads) < MaxOps
    /\ \A k \in DOMAIN reads : reads[k] \in names
    /\ reads' = Append(reads, name)

HumidityCalls == {"HumiditySensor.read", "set_humidity"}
OdorCalls == {"OdorSensor.read", "set_odor"}
AirQualityCalls == {"AirQualitySensor.read", "set_aqi"}

CallHumidityRead ==
    /\ Logged("HumiditySensor.read", HumidityCalls)
    /\ \E fill \in SetterFillArgs, variation \in HumidityVariationDraws :
         HumiditySensor_read(fill, variation)
    /\ UNCHANGED <<othersOfSetters, odorVars, aqiVars>>

CallSetHumidity ==
    /\ Logged("set_humidity", HumidityCalls)
    /\ \E humidity \in HumidityArgs : set_humidity(humidity)
    /\ UNCHANGED <<othersOfSetters, odorVars, aqiVars>>

CallOdorRead ==
    /\ Logged("OdorSensor.read", OdorCalls)
    /\ \E fill \in SetterFillArgs :
         \E odor_type \in OdorTypeDraws(fill) :
           \E base_intensity \in SetterOdorBaseDraws(odor_type),
              variation \in SetterOdorVariationDraws :
             OdorSensor_read(fill, odor_type, base_intensity, variation)
    /\ UNCHANGED <<othersOfSetters, humidityVars, aqiVars>>

CallSetOdor ==
    /\ Logged("set_odor", OdorCalls)
    /\ \E odor \in OdorArgs : set_odor(odor[1], odor[2])
    /\ UNCHANGED <<othersOfSetters, humidityVars, aqiVars>>

CallAirQualityRead ==
    /\ Logged("AirQualitySensor.read", AirQualityCalls)
    /\ \E fill \in SetterFillArgs, temperature \in SetterTemperatureArgs,
          variation \in AqiVariationDraws :
         AirQualitySensor_read(fill, temperature, variation)
    /\ UNCHANGED <<othersOfSetters, odorVars, humidityVars>>

CallSetAirQuality ==
    /\ Logged("set_aqi", AirQualityCalls)
    /\ \E aqi \in AqiArgs : set_aqi(aqi)
    /\ UNCHANGED <<othersOfSetters, odorVars, humidityVars>>

NextSetters ==
    \/ CallHumidityRead
    \/ CallSetHumidity
    \/ CallOdorRead
    \/ CallSetOdor
    \/ CallAirQualityRead
    \/ CallSetAirQuality

SpecSetters == InitSpecAirQuality /\ [][NextSetters]_vars

\* ================================================================== claims
Abs(n) == IF n < 0 THEN -n ELSE n

\* C1: for every user, after any sequence of register, award and redeem calls
\* (the detector's awards and the harness's redemptions included), the balance
\* is the sum of the awards that succeeded minus the sum of the redemptions that
\* succeeded, and it is never negative.
C1_BalanceIsAwardsMinusRedemptions ==
    \A user_id \in Registered :
        /\ token_balance[user_id] = awarded[user_id] - redeemed[user_id]
        /\ token_balance[user_id] >= 0

\* A user whom the detector awarded tokens and who then redeemed some in the
\* harness's redemption step.
C1_Witness ==
    /\ redemption_outcome = "redeemed"
    /\ \E user_id \in Registered :
         /\ awarded[user_id] > 0
         /\ redeemed[user_id] > 0
         /\ token_balance[user_id] > 0

\* C2: redeem_tokens called with more tokens than the user's balance returns
\* false and leaves every balance and every history as it was.
C2_RedeemOverBalanceRejected ==
    [][(/\ ret'.op = "redeem"
        /\ ret'.user \in Registered
        /\ ret'.amount > token_balance[ret'.user])
       => (~ret'.success /\ UNCHANGED ledgerVars)]_vars

\* Two accounts, and a redemption of a known option refused because it asked for
\* more than the positive balance of its user.
C2_Witness ==
    /\ ret.op = "redeem" /\ ~ret.success
    /\ ret.arg \in DOMAIN redemption_options
    /\ Cardinality(Registered) = 2
    /\ ret.user \in Registered
    /\ token_balance[ret.user] > 0
    /\ ret.amount > token_balance[ret.user]

\* C3: award_tokens for an unregistered user id or a material that is not in
\* the catalog returns (false, 0), creates no account and leaves every balance
\* and history as it was.
C3_FailedAwardChangesNothing ==
    [][(/\ ret'.op = "award"
        /\ (ret'.user \notin Registered \/ ret'.arg \notin DOMAIN token_values))
       => (~ret'.success /\ ret'.tokens = 0 /\ UNCHANGED ledgerVars)]_vars

\* The detector read a material for a current user who is not registered, while
\* a registered user holds tokens.
C3_Witness ==
    /\ recyclable_data.materialDetected
    /\ recyclable_data.userId = NoSuchUser
    /\ ret.op = "award" /\ ~ret.success
    /\ \E user_id \in Registered : token_balance[user_id] > 0

\* C4: redeem_tokens succeeds exactly when the user exists, the option is known
\* and the balance covers the tokens; a success takes exactly the tokens from
\* that user's balance and appends exactly one record {timestamp, tokens,
\* option, reward = tokens x rate} to that user's history, leaving the earlier
\* records and every other account as they were.
C4_RedeemExactly ==
    [][ret'.op = "redeem" =>
         LET user_id == ret'.user
             tokens == ret'.amount
             option == ret'.arg
         IN  /\ ret'.success <=> (/\ user_id \in Registered
                                  /\ option \in DOMAIN redemption_options
                                  /\ token_balance[user_id] >= tokens)
             /\ ret'.success =>
                  /\ token_balance' = [token_balance EXCEPT ![user_id] = @ - tokens]
                  /\ redemption_history' =
                       [redemption_history EXCEPT ![user_id] =
                          Append(@, [timestamp |-> ops, tokens |-> tokens,
                                     option |-> option,
                                     reward |-> tokens * redemption_options[option]])]
                  /\ user_name' = user_name]_vars

\* A second successful redemption of a user, with another account registered.
C4_Witness ==
    /\ ret.op = "redeem" /\ ret.success
    /\ Cardinality(Registered) = 2
    /\ Len(redemption_history[ret.user]) = 2
    /\ redemption_history[ret.user][2].tokens = ret.amount

\* C5: a successful award returns weight x value per kg rounded to 2 decimals
\* (0.30 kg of plastic at 2.0 tokens/kg: 0.60), the detector reports that
\* amount, and the user's balance grows by exactly it while the other balances
\* stay.
C5_AwardRounded ==
    [][(ret'.op = "award" /\ ret'.success) =>
         LET exact == ret'.amount * token_values[ret'.arg]   \* in 1/10000 token
             told == IF recyclable_data'.materialDetected
                     THEN recyclable_data'.tokensAwarded ELSE ret'.tokens
         IN  /\ 2 * Abs(100 * told - exact) <= 100
             /\ (ret'.arg = "plastic" /\ ret'.amount = 300) => told = 60
             /\ recyclable_data'.materialDetected =>
                  /\ ret'.amount = recyclable_data'.weight
                  /\ ret'.arg = recyclable_data'.materialType
             /\ token_balance' = [token_balance EXCEPT ![ret'.user] = @ + told]]_vars

\* The detector awarded tokens to one of two users, the other holding tokens too.
C5_Witness ==
    /\ recyclable_data.materialDetected
    /\ recyclable_data.tokensAwarded > 0
    /\ ret.op = "award" /\ ret.success
    /\ \E other \in Registered : other # ret.user /\ token_balance[other] > 0

\* C6: after normal_readings_before_anomaly consecutive normal-branch readings
\* the next read (the forced one) is reported with isAnomaly = true and an
\* anomalyType of high or low, whatever the random draws are.
C6_ForcedReadingIsAnomaly ==
    force_anomaly =>
        /\ temp_data.isAnomaly
        /\ temp_data.anomalyType \in {"high", "low"}

\* C7: in every tick of a session configured as in WasteBinIoTSimulation.__init__,
\* every bounded output, as the sensor returned it and as the composite record
\* reports it, lies in its closed interval: fill level in [0, 100], humidity in
\* [0, 100], AQI in [0, 500], odor intensity in [0, 1], latitude in [-90, 90],
\* longitude in [-180, 180].
C7_OutputsWithinIntervals ==
    /\ \A fill \in {fill_level_data.fillLevel, combined_data.fillLevel} :
         0 <= fill /\ fill <= 10000
    /\ \A humidity \in {humidity_data.humidity, combined_data.humidity} :
         0 <= humidity /\ humidity <= 10000
    /\ \A aqi \in {air_quality_data.aqi, combined_data.aqi} :
         0 <= aqi /\ aqi <= 50000
    /\ \A intensity \in {odor_data.intensity, combined_data.odorIntensity} :
         0 <= intensity /\ intensity <= 1000
    /\ \A lat \in {gps_data.latitude, combined_data.latitude} :
         -90000000 <= lat /\ lat <= 90000000
    /\ \A lon \in {gps_data.longitude, combined_data.longitude} :
         -180000000 <= lon /\ lon <= 180000000

\* A tick of a batch run in which the bin has filled up to its capacity and the
\* odor draws summed to more than 1: both are reported at their upper bound.
C7_Witness ==
    /\ mode = "batch" /\ At("send")
    /\ combined_data.fillLevel = 10000
    /\ fill_level_data.status = "overflow"
    /\ combined_data.odorIntensity = 1000
    /\ combined_data.aqi > 0 /\ combined_data.humidity > 0
    /\ combined_data.latitude # 0

\* C8: for any constructor parameters and after any sequence of read,
\* set_fill_level and empty_bin calls, 0 <= fill_level <= capacity.
C8_FillLevelWithinCapacity == 0 <= fill_level /\ fill_level <= capacity

\* C9: in every tick of both loops the fill level is read before odor, humidity
\* and air quality are read, temperature is read before air quality, and the
\* fill level and temperature those three reads were given are the values the
\* fill-level and temperature reads of the same tick returned.
Before(first, second) ==
    \E m \in DOMAIN reads, n \in DOMAIN reads :
        m < n /\ reads[m] = first /\ reads[n] = second

C9_ReadOrderAndSameTickValues ==
    /\ "odor" \in Range(reads) =>
         /\ Before("fill_level", "odor")
         /\ odor_data.fill_level = fill_level_data.fillLevel
    /\ "humidity" \in Range(reads) =>
         /\ Before("fill_level", "humidity")
         /\ humidity_data.fill_level = fill_level_data.fillLevel
    /\ "air_quality" \in Range(reads) =>
         /\ Before("fill_level", "air_quality")
         /\ Before("temperature", "air_quality")
         /\ air_quality_data.fill_level = fill_level_data.fillLevel
         /\ air_quality_data.temperature = temp_data.temperature

\* A later tick of a continuous run, after its reads and before its record is
\* assembled: the three generators were given this tick's fill level and
\* temperature, which differ from those of the tick before (still in
\* combined_data).
C9_Witness ==
    /\ mode = "continuous" /\ i >= 1 /\ At("combine")
    /\ combined_data.fillLevel # fill_level_data.fillLevel
    /\ combined_data.temperature # temp_data.temperature
    /\ odor_data.fill_level = fill_level_data.fillLevel
    /\ humidity_data.fill_level = fill_level_data.fillLevel
    /\ air_quality_data.fill_level = fill_level_data.fillLevel
    /\ air_quality_data.temperature = temp_data.temperature

ContinuousReads ==
    <<"gps", "temperature", "recyclable", "fill_level", "odor", "humidity",
      "air_quality">>

\* C11: in the continuous run a shutdown signal is acted on only between
\* ticks.  The handler changes nothing but the flag; a tick in progress when
\* the flag is down still takes every one of its statements in turn (sensor
\* reads, the detector's award, the telemetry hand-off) up to its end; a
\* finished tick has read every sensor and handed its telemetry over; and with
\* the flag down no tick begins.
C11_ShutdownOnlyBetweenTicks ==
    /\ [][(mode = "continuous" /\ running /\ ~running')
            => UNCHANGED <<ledgerVars, detVars, tempVars, fillVars, envVars, pc, step,
                           i, connected, current_user, combined_data, telemetry,
                           reads, sleeps>>]_vars
    /\ [][(mode = "continuous" /\ ~running /\ pc = "tick")
            => \/ UNCHANGED <<pc, step>>
               \/ pc' = "tick" /\ step' = step + 1
               \/ At("sleep") /\ pc' = "loop" /\ reads' = ContinuousReads
                              /\ telemetry' # "none"]_vars
    /\ [][(mode = "continuous" /\ ~running /\ pc # "tick") => pc' # "tick"]_vars
    /\ [](mode = "continuous" /\ pc = "tick"
            => reads = SelectSeq(SubSeq(ContinuousTickOrder, 1, step - 1),
                                 LAMBDA name : name \in Range(ContinuousReads)))

\* The signal came during the first tick, before its award: the tick has
\* credited the user, handed its telemetry over and ended without sleeping.
C11_Witness ==
    /\ mode = "continuous" /\ ~running /\ pc = "loop"
    /\ i = 1 /\ sleeps = 0
    /\ reads = ContinuousReads
    /\ token_balance[1] > 0
    /\ telemetry = "sent"

\* ------------------------------------------------------------------------ C12
\* C12: nothing runs between a balance check and the mutation after it.  Every
\* change of a balance is one whole award (at the detector's read) or one
\* whole redemption (at the redemption statement) applied to the balance as it
\* stood when the step began; the redemption statement asks for no more than
\* the balance it has just read, so its redemption succeeds; the awaited
\* statements and the signal handler change no balance; and no balance is ever
\* negative.
C12_CheckThenMutateUninterrupted ==
    /\ [](\A user_id \in DOMAIN token_balance : token_balance[user_id] >= 0)
    /\ [][ret'.op = "redeem"
            => /\ At("redeem")
               /\ ret'.amount <= token_balance[ret'.user]
               /\ ret'.success
               /\ token_balance' =
                    [token_balance EXCEPT ![ret'.user] = @ - ret'.amount]]_vars
    /\ [][ret'.op = "award"
            => /\ At("recyclable")
               /\ ret'.success
               /\ token_balance' =
                    [token_balance EXCEPT ![ret'.user] = @ + ret'.tokens]]_vars
    /\ [][token_balance' # token_balance => ret'.op \in {"award", "redeem"}]_vars

\* A redemption of a user's whole balance while another user holds tokens.
C12_Witness ==
    /\ redemption_outcome = "redeemed"
    /\ ret.op = "redeem" /\ ret.success
    /\ token_balance[ret.user] = 0
    /\ \E user_id \in DOMAIN token_balance : token_balance[user_id] > 0

\* ------------------------------------------------------------------------ C13
\* C13: a detector never holds probabilities whose sum lies outside
\* [0.99, 1.01]: the constructor and set_detection_probabilities reject such
\* weights, and a rejected set_detection_probabilities leaves the previous
\* probabilities as they were, so the probabilities only ever change to a
\* valid assignment.
C13_ProbabilitiesSumToOne ==
    /\ [](99 <= ProbabilitySum(detection_probabilities)
           /\ ProbabilitySum(detection_probabilities) <= 101)
    /\ [][detection_probabilities' # detection_probabilities
            => (99 <= ProbabilitySum(detection_probabilities')
                /\ ProbabilitySum(detection_probabilities') <= 101)]_vars

\* ------------------------------------------------------------------------ C14
\* C14: a read of the detector that detects a material while a ledger is
\* attached and a current user is set calls award_tokens exactly once, for that
\* user, and reports as tokensAwarded exactly what the ledger credited (the
\* user's balance grows by it, no other balance moves); any other read makes no
\* ledger call, changes no ledger state and reports 0 tokens.
C14_AwardOncePerDetection ==
    [][CallDetectorRead =>
         IF recyclable_data'.materialDetected /\ token_manager
            /\ current_user_id # None
         THEN /\ ret'.op = "award" /\ ret'.user = current_user_id
              /\ ops' = ops + 1
              /\ recyclable_data'.tokensAwarded = ret'.tokens
              /\ DOMAIN token_balance' = DOMAIN token_balance
              /\ \A user_id \in Registered :
                   token_balance'[user_id] =
                     token_balance[user_id] +
                       (IF user_id = current_user_id
                        THEN recyclable_data'.tokensAwarded ELSE 0)
              /\ current_user_id \notin Registered
                   => recyclable_data'.tokensAwarded = 0
              /\ UNCHANGED <<user_name, redemption_history>>
         ELSE /\ ret'.op = "none" /\ ops' = ops
              /\ UNCHANGED ledgerVars
              /\ recyclable_data'.tokensAwarded = 0]_vars

\* A second award of the detector to the same current user: the balance is more
\* than the tokens just reported.
C14_Witness ==
    /\ recyclable_data.materialDetected
    /\ token_manager /\ current_user_id \in Registered
    /\ ret.op = "award" /\ ret.user = current_user_id
    /\ recyclable_data.tokensAwarded > 0
    /\ token_balance[current_user_id] > recyclable_data.tokensAwarded

\* ------------------------------------------------------------------------ C15
\* C15: in every reading of the fill-level sensor, isFull holds exactly when
\* the level the reading reports is at least overflow_threshold, isOverflowing
\* exactly when it is at least capacity, status is "overflow" when
\* isOverflowing, else "full" when isFull, else "normal", and the status inside
\* fillLevelData is the same as the status of the reading.
C15_FillFlagsAndStatus ==
    fill_level_data.status # "none" =>
        /\ fill_level_data.isFull <=> (10 * fill_level_data.fillLevel >= overflow_threshold)
        /\ fill_level_data.isOverflowing <=> (10 * fill_level_data.fillLevel >= capacity)
        /\ fill_level_data.isOverflowing => fill_level_data.status = "overflow"
        /\ (~fill_level_data.isOverflowing /\ fill_level_data.isFull)
             => fill_level_data.status = "full"
        /\ (~fill_level_data.isOverflowing /\ ~fill_level_data.isFull)
             => fill_level_data.status = "normal"
        /\ fill_level_data.dataStatus = fill_level_data.status

\* A reading after the first whose level lies between the threshold and the
\* capacity, reported as full.
C15_Witness ==
    /\ fill_calls > 1
    /\ fill_level_data.isFull /\ ~fill_level_data.isOverflowing
    /\ fill_level_data.status = "full"
    /\ 10 * fill_level_data.fillLevel >= overflow_threshold
    /\ 10 * fill_level_data.fillLevel < capacity

\* ------------------------------------------------------------------------ C16
\* The place of a category in the order good < moderate < unhealthy_sensitive
\* < unhealthy < very_unhealthy < hazardous (0 for a name that is none of them).
CategoryRank(name) ==
    IF \E k \in DOMAIN AQI_CATEGORIES : AQI_CATEGORIES[k].name = name
    THEN CHOOSE k \in DOMAIN AQI_CATEGORIES : AQI_CATEGORIES[k].name = name
    ELSE 0

\* C16: every reading of the air-quality sensor has an AQI in [0, 500] and one
\* of the six categories, and of two successive readings the one with the
\* higher AQI never has the lower category.
C16_CategoryPreservesOrder ==
    /\ [](air_quality_data.category # "none"
            => /\ 0 <= air_quality_data.aqi /\ air_quality_data.aqi <= 50000
               /\ CategoryRank(air_quality_data.category) \in 1 .. 6)
    /\ [][(air_quality_data.category # "none"
            /\ air_quality_data.aqi < air_quality_data'.aqi)
           => CategoryRank(air_quality_data.category)
                <= CategoryRank(air_quality_data'.category)]_vars
    /\ [][(air_quality_data.category # "none"
            /\ air_quality_data.aqi > air_quality_data'.aqi)
           => CategoryRank(air_quality_data.category)
                >= CategoryRank(air_quality_data'.category)]_vars

\* ------------------------------------------------------------------------ C17
\* C17: a read of the temperature sensor takes the anomaly branch exactly when
\* normal_readings_count >= normal_readings_before_anomaly or its random draw
\* is below anomaly_probability; the anomaly branch sets the counter to 0, the
\* normal branch adds exactly 1 to it, and nothing else (set_temperature)
\* changes the counter.
C17_CounterAndBranch ==
    /\ [][CallTemperatureRead =>
           /\ temp_data'.branch \in {"anomaly", "normal"}
           /\ temp_data'.branch = "anomaly"
                <=> (normal_readings_count >= normal_readings_before_anomaly
                     \/ temp_data'.chance)
           /\ temp_data'.branch = "anomaly" => normal_readings_count' = 0
           /\ temp_data'.branch = "normal"
                => normal_readings_count' = normal_readings_count + 1]_vars
    /\ [][normal_readings_count' # normal_readings_count => CallTemperatureRead]_vars
    /\ [][CallSetTemperature => UNCHANGED normal_readings_count]_vars

\* The counter has reached its threshold of 3 by normal reads, the temperature
\* was then set by hand, and the counter is still 3.
C17_Witness ==
    /\ normal_readings_before_anomaly = 3
    /\ normal_readings_count = 3
    /\ temp_data.branch = "normal" /\ ~temp_data.chance
    /\ current_temperature = 60000

\* ------------------------------------------------------------------------ C18
\* C18: the flags of a reading depend only on the temperature the read arrived
\* at and on the thresholds, whichever branch produced it: anomalyType is
\* "high" exactly when the temperature is above anomaly_threshold_high, "low"
\* exactly when it is below anomaly_threshold_low, "none" otherwise, and
\* isAnomaly holds exactly when anomalyType is not "none".
C18_FlagsFollowTemperature ==
    [][CallTemperatureRead =>
         /\ temp_data'.anomalyType = "high"
              <=> current_temperature' > anomaly_threshold_high
         /\ temp_data'.anomalyType = "low"
              <=> current_temperature' < anomaly_threshold_low
         /\ temp_data'.anomalyType = "none"
              <=> (anomaly_threshold_low <= current_temperature'
                   /\ current_temperature' <= anomaly_threshold_high)
         /\ temp_data'.isAnomaly <=> temp_data'.anomalyType # "none"]_vars

\* The first normal-branch read after a high anomaly of 70 degrees: it has
\* drifted to 62.4 degrees and is reported as a high anomaly itself.
C18_Witness ==
    /\ temp_data.branch = "normal"
    /\ normal_readings_count = 1
    /\ current_temperature = 62400
    /\ temp_data.isAnomaly /\ temp_data.anomalyType = "high"

\* ------------------------------------------------------------------------ C19
\* C19: the fill level only accumulates: a read never stores a level below the
\* one stored before it, and of two successive reads with no set_fill_level or
\* empty_bin between them the second never reports a lower level than the
\* first, whatever fill_rate and fill_rate_variation the sensor was built with.
C19_FillLevelNeverDecreases ==
    [][CallFillRead =>
         /\ fill_level' >= fill_level
         /\ (fill_level_data.status # "none"
              /\ fill_level_data.fillLevel \in RoundDiv(fill_level, 10))
             => fill_level_data'.fillLevel >= fill_level_data.fillLevel]_vars

\* ------------------------------------------------------------------------ C20
EnvironmentReads == {"fill_level", "odor", "humidity", "air_quality"}

\* C20 as stated: in every tick the GPS and the temperature are read first,
\* then the fill level, then odor, humidity and air quality, then the
\* recyclable detector (with its award), and the composite record is assembled
\* after all of them; so a tick's award comes after its fill-level and
\* environmental reads.
C20_DetectorReadAfterEnvironment ==
    /\ "fill_level" \in Range(reads)
         => Before("gps", "fill_level") /\ Before("temperature", "fill_level")
    /\ \A name \in EnvironmentReads \ {"fill_level"} :
         name \in Range(reads) => Before("fill_level", name)
    /\ "recyclable" \in Range(reads)
         => \A name \in EnvironmentReads \cup {"gps", "temperature"} :
              Before(name, "recyclable")
    /\ (pc = "tick" /\ ret.op = "award") => EnvironmentReads \subseteq Range(reads)
    /\ (pc = "tick" /\ step > PositionOf("combine"))
         => Range(reads) = EnvironmentReads \cup {"gps", "temperature", "recyclable"}

\* C20 as the loops are written: in every tick the GPS and the temperature are
\* read first, then the recyclable detector (with its award), then the fill
\* level, then odor, humidity and air quality, and the composite record is
\* assembled after all of them; so a tick's award comes after its GPS and
\* temperature reads and before its fill-level and environmental reads.
C20_DetectorReadBeforeFillLevel ==
    /\ "recyclable" \in Range(reads)
         => Before("gps", "recyclable") /\ Before("temperature", "recyclable")
    /\ "fill_level" \in Range(reads) => Before("recyclable", "fill_level")
    /\ \A name \in EnvironmentReads \ {"fill_level"} :
         name \in Range(reads) => Before("fill_level", name)
    /\ (pc = "tick" /\ ret.op = "award")
         => reads = <<"gps", "temperature", "recyclable">>
    /\ (pc = "tick" /\ step > PositionOf("combine"))
         => Range(reads) = EnvironmentReads \cup {"gps", "temperature", "recyclable"}

\* A later tick of a batch run just after its award: of this tick only the GPS,
\* the temperature and the detector have been read, and the fill-level reading
\* at hand is still the one of the tick before.
C20_Witness ==
    /\ mode = "batch" /\ i >= 1 /\ pc = "tick"
    /\ ret.op = "award" /\ ret.success
    /\ reads = <<"gps", "temperature", "recyclable">>
    /\ fill_level_data.fillLevel = combined_data.fillLevel
    /\ fill_level_data.status # "none"

\* ------------------------------------------------------------------------ C21
\* C21: the session never retries a transmission.  The send statement of a
\* tick is entered only from the assembly of that tick's record, and however
\* the send ends (sent, false or raised) control leaves the statement and never
\* comes back to it in the same tick; the record is assembled anew in every
\* tick before its send, so a record that failed is not sent again later.
C21_NoTelemetryRetry ==
    /\ [][At("send") =>
             \/ UNCHANGED <<pc, step, telemetry>>
             \/ pc' = "tick" /\ step' > step
             \/ pc' \in {"loop", "finally"}]_vars
    /\ [][(pc' = "tick" /\ step' = PositionOf("send") /\ ~At("send"))
            => (At("combine") /\ combined_data' = CombinedData)]_vars
    /\ [][(pc = "tick" /\ pc' = "tick") => step' >= step]_vars
    /\ [][telemetry' # telemetry => At("send")]_vars

\* The send of a later tick has returned false and the tick has gone on to
\* its next statement; the record at hand is that tick's.
C21_Witness ==
    /\ profile = "control" /\ i >= 1 /\ pc = "tick"
    /\ step = PositionOf("send") + 1
    /\ telemetry = "false"
    /\ combined_data.userId = current_user
    /\ sleeps >= 1

\* ------------------------------------------------------------------------ C22
\* C22: run_simulation(num_readings, delay) runs at most num_readings ticks,
\* sleeps only between two ticks and never after the last one, and on every way
\* out (completion, interruption, an exception escaping a tick or the
\* redemption step) it goes through its final step, after which the client is
\* not connected.
C22_BatchRunEndsInFinalStep ==
    mode = "batch" =>
        /\ i <= num_readings
        /\ sleeps <= i /\ sleeps <= Max(num_readings - 1, 0)
        /\ pc \in {"connect", "loop", "tick", "finally", "done"}
        /\ pc = "done" => ~connected

\* ------------------------------------------------------------------------ C23
\* C23: run_simulation simulates a redemption every 5 readings.  The
\* redemption statement of a tick comes after the tick's reads and its
\* telemetry hand-off (also when the hand-off failed) and before the delay; it
\* calls _simulate_token_redemption exactly when i > 0 and i mod 5 = 0, so
\* never in tick 0; and nothing else in the run makes that call.
C23_RedemptionEveryFiveReadings ==
    /\ [][(At("redeem") /\ running' = running) =>
            /\ mode = "batch"
            /\ Len(reads) = 7 /\ combined_data = CombinedData /\ telemetry # "none"
            /\ redemption_outcome' # "none" <=> (i > 0 /\ i % 5 = 0)
            /\ \/ pc' = "tick" /\ step' = PositionOf("sleep") /\ sleeps' = sleeps
               \/ pc' = "finally" /\ redemption_outcome' = "raised"]_vars
    /\ [][redemption_outcome' # redemption_outcome => At("redeem")]_vars
    /\ [][(mode = "batch" /\ pc' = "tick" /\ step' = PositionOf("redeem"))
            => (At("redeem") \/ At("send"))]_vars

\* The sixth tick (i = 5) of a run has made its call, for a user without
\* tokens, although the client raised in the tick's telemetry hand-off.
C23_Witness ==
    /\ mode = "batch" /\ i = 5 /\ At("sleep")
    /\ telemetry = "raised"
    /\ redemption_outcome = "insufficient"

\* ------------------------------------------------------------------------ C24
\* C24: in every state 0 <= normal_readings_count <=
\* normal_readings_before_anomaly, so no more than
\* normal_readings_before_anomaly normal-branch readings follow one another;
\* and a normal-branch reading that is flagged as an anomaly because of the
\* drift adds 1 to the counter like any other and does not reset it.
C24_CounterWithinThreshold ==
    /\ [](0 <= normal_readings_count
           /\ normal_readings_count <= normal_readings_before_anomaly)
    /\ [][(CallTemperatureRead /\ temp_data'.branch = "normal"
              /\ temp_data'.isAnomaly)
            => (/\ normal_readings_count < normal_readings_before_anomaly
                /\ normal_readings_count' = normal_readings_count + 1)]_vars

\* The third normal-branch reading in a row after a high anomaly, itself still
\* flagged high: the counter stands at its threshold of 3.
C24_Witness ==
    /\ normal_readings_before_anomaly = 3
    /\ normal_readings_count = 3
    /\ temp_data.branch = "normal"
    /\ temp_data.isAnomaly /\ temp_data.anomalyType = "high"
    /\ current_temperature > anomaly_threshold_high

\* ------------------------------------------------------------------------ C25
\* C25: a read of the humidity, odor or air-quality sensor gives what its
\* arguments and draws give with the session's configuration, whatever value
\* a setter stored before: the humidity is base_humidity + 30 * fill factor
\* within humidity_variation, the AQI is base_aqi + 100 * fill factor + 50 *
\* temperature factor within aqi_variation, the odor type is one the fill
\* factor's weights allow and its intensity lies in that type's range within
\* odor_variation (rounding apart); the read overwrites the stored value.  A
\* setter changes the stored value only, clamped, and leaves the last reading
\* alone; set_odor with an unknown type changes nothing.
C25_SettersDoNotReachReadings ==
    /\ [][CallHumidityRead =>
             LET expected == base_humidity + humidity_data'.fill_level
                                * humidity_fill_level_correlation * 3
             IN  /\ humidity_data'.fill_level \in SetterFillArgs
                 /\ Abs(current_humidity' - expected) <= humidity_variation
                 /\ Abs(100 * humidity_data'.humidity - current_humidity') <= 50]_vars
    /\ [][CallAirQualityRead =>
             LET expected == base_aqi + air_quality_data'.fill_level
                                * aqi_fill_level_correlation
                             + Max(0, air_quality_data'.temperature - 2500)
                                * temperature_correlation * 2
             IN  /\ air_quality_data'.fill_level \in SetterFillArgs
                 /\ air_quality_data'.temperature \in SetterTemperatureArgs
                 /\ Abs(current_aqi' - expected) <= aqi_variation
                 /\ Abs(10 * air_quality_data'.aqi - current_aqi') <= 5]_vars
    /\ [][CallOdorRead =>
             LET range == ODOR_TYPES[odor_data'.odorType].intensity_range
             IN  /\ odor_data'.odorType \in OdorTypeDraws(odor_data'.fill_level)
                 /\ current_odor_type' = odor_data'.odorType
                 /\ current_intensity' >= Max(0, range[1] - odor_variation)
                 /\ current_intensity' <= Min(10000, range[2] + odor_variation)
                 /\ Abs(10 * odor_data'.intensity - current_intensity') <= 5]_vars
    /\ [][CallSetHumidity =>
             /\ humidity_data' = humidity_data
             /\ current_humidity' \in {Clamp(h, 0, 1000000) : h \in HumidityArgs}]_vars
    /\ [][CallSetAirQuality =>
             /\ air_quality_data' = air_quality_data
             /\ current_aqi' \in {Clamp(a, 0, 500000) : a \in AqiArgs}]_vars
    /\ [][CallSetOdor =>
             /\ odor_data' = odor_data
             /\ \/ UNCHANGED <<current_odor_type, current_intensity>>
                \/ /\ current_odor_type' \in DOMAIN ODOR_TYPES
                   /\ \E odor \in OdorArgs :
                        /\ current_odor_type' = odor[1]
                        /\ current_intensity' = Clamp(odor[2], 0, 10000)]_vars

\* The humidity was set to 120 % (stored as 100 %) and then read at a fill
\* level of 15 %: the reading is at most 57.7 % and the stored value is the
\* reading's.
C25_Witness ==
    /\ reads = <<"set_humidity", "HumiditySensor.read">>
    /\ humidity_data.fill_level = 1500
    /\ humidity_data.humidity <= 5770
    /\ current_humidity <= 577000
    /\ humidity_data.status = "normal"

\* ------------------------------------------------------------------------ C26
\* C26: the acting user of tick i is users[i mod 3]; it is set on the detector
\* before the detector read of the tick; the detector read can only raise the
\* balance of that user, by the tokens it reports; and no step of the tick
\* before the redemption changes another user's balance or anybody's history.
ActingUser == users[(i % Len(users)) + 1]

C27_HarnessRedemptionWithinBalance ==
    /\ [](redemption_outcome # "failed")
    /\ [][ret'.op = "redeem" =>
             /\ ret'.user \in Range(users)
             /\ ret'.arg \in DOMAIN redemption_options
             /\ ret'.amount % 100 = 0
             /\ 100 <= ret'.amount
             /\ ret'.amount <= Min(1000, token_balance[ret'.user])
             /\ token_balance[ret'.user] >= 100
             /\ redemption_outcome' = "redeemed"
             /\ Len(redemption_history'[ret'.user])
                  = Len(redemption_history[ret'.user]) + 1]_vars

\* A redemption of the most the session ever asks for, 10 tokens, for cash, by
\* a user who keeps tokens after it.
C27_Witness ==
    /\ redemption_outcome = "redeemed"
    /\ ret.op = "redeem" /\ ret.arg = "cash" /\ ret.amount = 1000
    /\ token_balance[ret.user] >= 100
    /\ redemption_history[ret.user] # <<>>

\* ------------------------------------------------------------------------ C28
\* C28: the tokenBalance of a tick's composite record is the acting user's
\* balance when the record is built, after the detector read of the tick, with
\* the tokensAwarded of that read in the same record; from the start of the
\* tick to the record the acting user's balance changes at the detector read
\* only, by tokensAwarded, so tokenBalance is the balance at the start of the
\* tick plus tokensAwarded; and a redemption comes after the record of its
\* tick and leaves the record as it is.
C28_TokenBalanceAfterAward ==
    /\ [][TickCombine =>
             /\ "recyclable" \in Range(reads)
             /\ combined_data'.userId = ActingUser
             /\ combined_data'.tokenBalance = token_balance[ActingUser]
             /\ combined_data'.tokensAwarded = recyclable_data.tokensAwarded]_vars
    /\ [][(pc = "tick" /\ step <= PositionOf("combine")) =>
             token_balance'[ActingUser] =
               token_balance[ActingUser]
                 + (IF TickReadRecyclable THEN recyclable_data'.tokensAwarded ELSE 0)]_vars
    /\ [][ret'.op = "redeem" =>
             /\ step > PositionOf("combine")
             /\ combined_data.userId = ActingUser
             /\ combined_data' = combined_data]_vars

\* The record of a tick whose detector read awarded tokens to a user who held
\* some already: tokenBalance exceeds tokensAwarded.
C28_Witness ==
    /\ pc = "tick" /\ step = PositionOf("combine") + 1
    /\ combined_data = CombinedData
    /\ combined_data.tokensAwarded > 0
    /\ combined_data.tokenBalance > combined_data.tokensAwarded
    /\ combined_data.tokenBalance = token_balance[current_user]

\* ------------------------------------------------------------------------ C29
\* C29: in a session the fill level handed to the odor sensor is at most 100 %,
\* so the odor fill factor is at most 0.7 at every odor read and the weights of
\* the fill factor > 0.8 bucket are never the ones the odor type is drawn
\* with; the buckets are chosen by strict comparisons: a fill factor of exactly
\* 0.8, 0.5 or 0.2 has the weights of the bucket below.
HeaviestOdorWeights ==
    ("organic" :> 50) @@ ("chemical" :> 30) @@ ("mold" :> 15) @@ ("none" :> 5)

C29_HeaviestOdorBucketNeverSelected ==
    /\ [](/\ OdorFillFactor(fill_level_data.fillLevel) <= 70000
           /\ OdorFillFactor(odor_data.fill_level) <= 70000
           /\ OdorWeights(OdorFillFactor(odor_data.fill_level)) # HeaviestOdorWeights)
    /\ [][TickReadOdor =>
             /\ odor_data'.fill_level = fill_level_data.fillLevel
             /\ odor_data'.fill_level <= 10000
             /\ OdorWeights(OdorFillFactor(odor_data'.fill_level))[odor_data'.odorType] > 0
            ]_vars
    /\ [](/\ OdorWeights(80001) = HeaviestOdorWeights
           /\ OdorWeights(80000) = OdorWeights(50001)
           /\ OdorWeights(80000) # HeaviestOdorWeights
           /\ OdorWeights(50000) = OdorWeights(20001)
           /\ OdorWeights(50000) # OdorWeights(50001)
           /\ OdorWeights(20000) = OdorWeights(0)
           /\ OdorWeights(20000) # OdorWeights(20001))

\* An odor read of a full bin: the fill level is 100 %, the fill factor is 0.7
\* and the type was drawn with the weights of the fill factor > 0.5 bucket.
C29_Witness ==
    /\ pc = "tick" /\ "odor" \in Range(reads)
    /\ fill_level_data.fillLevel = 10000
    /\ odor_data.fill_level = 10000
    /\ OdorFillFactor(odor_data.fill_level) = 70000
    /\ OdorWeights(OdorFillFactor(odor_data.fill_level)) = OdorWeights(50001)

\* ------------------------------------------------------------------------ C30
\* C30: in a continuous run no redemption is made: no step calls redeem_tokens
\* or the redemption step, no balance ever goes down and every redemption
\* history stays empty; the reading counter changes at the counting statement
\* only, by one, which every tick passes once after its reads and its hand-off
\* and before its sleep, so that the counter is the number of sleeps made or
\* one more; a tick left in any other way leaves the counter as it is.
C30_ContinuousRunNeverRedeems ==
    /\ [](mode = "continuous" =>
             /\ \A u \in DOMAIN users : redemption_history[u] = <<>>
             /\ redemption_outcome = "none"
             /\ ret.op # "redeem"
             /\ sleeps <= i /\ i <= sleeps + 1)
    /\ [][mode = "continuous" =>
             \A u \in DOMAIN users : token_balance'[u] >= token_balance[u]]_vars
    /\ [][(mode = "continuous" /\ i' # i) =>
             /\ TickCount /\ i' = i + 1
             /\ Len(reads) = 7 /\ telemetry # "none"
             /\ combined_data = CombinedData]_vars
    /\ [][(mode = "continuous" /\ pc' = "tick" /\ step' = PositionOf("sleep")
              /\ ~At("sleep"))
            => TickCount]_vars
    /\ [][(mode = "continuous" /\ pc = "tick" /\ pc' # "tick") =>
             /\ i' = i
             /\ At("sleep") => i = sleeps + 1]_vars

\* A continuous run after three ticks: three readings counted, three sleeps
\* made, tokens awarded and nothing redeemed.
C30_Witness ==
    /\ mode = "continuous" /\ pc = "loop"
    /\ i = 3 /\ sleeps = 3
    /\ \E u \in DOMAIN users : token_balance[u] > 0
    /\ \A u \in DOMAIN users : redemption_history[u] = <<>> /\ redeemed[u] = 0

====
